---- MODULE Spec2Model ----
(***************************************************************************)
(* slimclaw: the agent turn engine (agentTurn), the context preparer       *)
(* (prepareContext = limitHistoryTurns, truncateToolResults,               *)
(* removeOrphanedToolResults) and the session journal (appendMessage).     *)
(*                                                                         *)
(* Strings of the program are TLA+ strings; JavaScript indices are 0-based *)
(* and are converted where a string or an array is indexed.                *)
(***************************************************************************)
EXTENDS Integers, Sequences, FiniteSets, TLC

VARIABLES
    messages,         \* session.messages: the transcript
    journal,          \* the entries of the session's JSONL file
    config,           \* the config handed to agentTurn
    pc,               \* where the agentTurn generator stands
    contextMessages,  \* agentTurn: the bounded context given to client.stream
    adapterPhase,     \* how far the adapter's stream of this round has got
    currentText,      \* agentTurn: text accumulated in this round
    toolUses,         \* agentTurn: tool_use events buffered in this round
    stopReason,       \* agentTurn: stop reason read from message_stop
    toolIndex,        \* agentTurn: position of the dispatch loop (1-based)
    toolResults,      \* agentTurn: tool_result blocks collected in this round
    pendingResult,    \* result of the tool call whose tool_end is being delivered
    events,           \* events delivered to the consumer during the current turn
    turnStart,        \* Len(messages) when the current turn was started
    rounds,           \* adapter calls made by the current turn
    userMessage,      \* agentTurn: the text the current turn was started with
    deltas,           \* text deltas the adapter has sent in this round
    execOutcome,      \* how the executor of the last tool call ended
    input,            \* context preparer on its own: the transcript given
    limitedResult,    \* context preparer on its own: `result` after layer 1
    output,           \* context preparer on its own: the bounded context returned
    phase,            \* context preparer on its own: "given", "prepared", "prepared again"
    client,           \* adapter on its own: the LLMClient whose stream is running
    adapterPc,        \* adapter on its own: where the stream generator stands
    upstream,         \* adapter on its own: what the upstream stream has delivered
    toolCalls,        \* OpenAIClient.stream: the Map toolCalls, in insertion order
    finishStopReason, \* OpenAIClient.stream: its local stopReason
    finalMessage,     \* AnthropicClient.stream: the message of stream.finalMessage()
    emitIndex,        \* tool calls or content blocks the adapter has gone through
    yielded,          \* adapter on its own: the events the stream has yielded
    currentSession,   \* ws connection: id of its currentSession, 0 for null
    sessionFiles,     \* sessions directory: per session id, who appended what
    handlers,         \* ws connection: the chat.send handlers and their turns
    raw,              \* session store: the text of the session's JSONL file
    sessionMessages,  \* session store: session.messages of the session created
    written,          \* session store: what each line of the file was written as
    appended,         \* session store: every message appended under the session id
    loadedMessages,   \* session store: messages of the session loadSession returned
    storePc,          \* session store: "none", "created", "loaded", "threw"
    stack,            \* delegation: the agent loops running, a sub-agent above its parent
    agentSessions,    \* delegation: session.messages of each session, the main one first
    spawnTools,       \* delegation: the tools createSubAgentTool was given
    lastReturn,       \* delegation: what the last spawnSubAgent call returned
    responses,        \* delegation: text and tool_use events the adapters have sent
    timer,            \* Heartbeat: this.timer, the number of an interval timer or 0
    timers,           \* Heartbeat: the interval timers installed by setInterval
    stopReturned,     \* Heartbeat: stop() has returned and start() was not called since
    lastTick,         \* Heartbeat: what the last interval tick saw and did
    turnCalls,        \* Heartbeat: the timers whose ticks have invoked agent.turn
    pendingTurns,     \* Heartbeat: calls of agent.turn that have not resolved
    lastDelivery,     \* Heartbeat: the last response and whether it was broadcast
    skillsDir,        \* skills: the version of each skill file on disk, 0 for none
    skillArrays,      \* skills: the Skill[] arrays created by loadSkills
    skills,           \* skills: the array main's variable skills refers to, 0 before main
    depsSkills,       \* skills: the array the server took from deps.skills
    allTools,         \* skills: the elements of main's array allTools
    debounceTimer,    \* skills: the watcher's debounce timer is set
    lastTurn,         \* skills: the tools and system prompt of the last turn started
    turnsStarted,     \* skills: turns the server has started
    mcpPhase,         \* MCP: where startAllMCPServers or stopAllMCPServers stands
    mcpConfig,        \* MCP: Object.entries(config.mcp.servers), the server names
    startAttempts,    \* MCP: the calls of startMCPServer and how each one ended
    servers,          \* MCP: the array servers of startAllMCPServers
    closeAttempts,    \* MCP: the calls of client.close and how each one ended
    stream,           \* one round: the events the adapter's stream delivers
    streamPos         \* one round: how many of them agentTurn has received

vars == <<messages, journal, config, pc, contextMessages, adapterPhase,
          currentText, toolUses, stopReason, toolIndex, toolResults,
          pendingResult, events, turnStart, rounds, userMessage, deltas,
          execOutcome, input, limitedResult, output, phase, client, adapterPc,
          upstream, toolCalls, finishStopReason, finalMessage, emitIndex, yielded,
          currentSession, sessionFiles, handlers, raw, sessionMessages, written, appended,
          loadedMessages, storePc, stack, agentSessions, spawnTools, lastReturn,
          responses, timer, timers, stopReturned, lastTick, turnCalls, pendingTurns,
          lastDelivery, skillsDir, skillArrays, skills, depsSkills, allTools, debounceTimer,
          lastTurn, turnsStarted, mcpPhase, mcpConfig, startAttempts, servers,
          closeAttempts, stream, streamPos>>

loopVars == <<messages, journal, config, pc, contextMessages, adapterPhase,
              currentText, toolUses, stopReason, toolIndex, toolResults,
              pendingResult, events, turnStart, rounds, userMessage, deltas,
              execOutcome>>

ctxVars == <<input, limitedResult, output, phase>>

adapterVars == <<client, adapterPc, upstream, toolCalls, finishStopReason,
                 finalMessage, emitIndex, yielded>>

coreVars == <<loopVars, ctxVars, adapterVars>>

serverVars == <<currentSession, sessionFiles, handlers>>

storeVars == <<raw, sessionMessages, written, appended, loadedMessages, storePc>>

subagentVars == <<stack, agentSessions, spawnTools, lastReturn, responses>>

heartbeatVars == <<timer, timers, stopReturned, lastTick, turnCalls, pendingTurns,
                   lastDelivery>>

skillVars == <<skillsDir, skillArrays, skills, depsSkills, allTools, debounceTimer,
               lastTurn, turnsStarted>>

mcpVars == <<mcpPhase, mcpConfig, startAttempts, servers, closeAttempts>>

roundVars == <<stream, streamPos>>

\* the components around the agent loop
hostVars == <<serverVars, storeVars, subagentVars, heartbeatVars, skillVars, mcpVars,
              roundVars>>

\* what the steps of one component leave alone
besideServer == <<coreVars, storeVars, subagentVars, heartbeatVars, skillVars, mcpVars,
     roundVars>>
besideStore == <<coreVars, serverVars, subagentVars, heartbeatVars, skillVars, mcpVars,
     roundVars>>
besideSubagent == <<coreVars, serverVars, storeVars, heartbeatVars, skillVars, mcpVars,
     roundVars>>
besideHeartbeat == <<coreVars, serverVars, storeVars, subagentVars, skillVars, mcpVars,
     roundVars>>
besideSkills == <<coreVars, serverVars, storeVars, subagentVars, heartbeatVars, mcpVars,
     roundVars>>
besideMcp == <<coreVars, serverVars, storeVars, subagentVars, heartbeatVars, skillVars,
     roundVars>>
besideRound == <<ctxVars, adapterVars, serverVars, storeVars, subagentVars, heartbeatVars,
     skillVars, mcpVars>>

(***************************************************************************)
(* Bounds of the model.                                                    *)
(***************************************************************************)
MaxMsgs == 6        \* longest transcript explored by the agent loop
MaxTools == 2       \* most tool_use events in one round
MaxCalls == 3       \* most tool_use events in one turn
MaxDeltas == 1      \* most text deltas in one round
MaxLen == 4         \* longest transcript given to the preparer on its own

(***************************************************************************)
(* Program constants.                                                      *)
(***************************************************************************)
HARD_MAX_TOOL_RESULT_CHARS == 400000
MIN_KEEP_CHARS == 2000

(***************************************************************************)
(* Strings.                                                                *)
(***************************************************************************)
Min(a, b) == IF a <= b THEN a ELSE b
Max(a, b) == IF a >= b THEN a ELSE b

\* "c".repeat(n)
Repeat(c, n) ==
    LET RECURSIVE R(_)
        R(k) == IF k <= 0 THEN ""
                ELSE IF k = 1 THEN c
                ELSE LET h == R(k \div 2)
                     IN IF k % 2 = 0 THEN h \o h ELSE h \o h \o c
    IN R(n)

\* text[i] for a 0-based index i
CharAt(text, i) == SubSeq(text, i + 1, i + 1)

\* text.slice(0, end)
Slice(text, end) == SubSeq(text, 1, Min(end, Len(text)))

\* text.lastIndexOf("\n", fromIndex): the largest 0-based index <= fromIndex
\* that holds a newline, or -1
LastIndexOfNewline(text, fromIndex) ==
    CHOOSE last \in
        {IF hits = {} THEN -1 ELSE CHOOSE i \in hits : \A j \in hits : j <= i :
            hits \in {{i \in 0..Min(fromIndex, Len(str) - 1) : CharAt(str, i) = "\n"} :
                         str \in {text}}} :
        TRUE

\* Math.floor(keepChars * 0.8)
SearchEnd(keepChars) == (keepChars * 8) \div 10

\* truncateText with keepChars = maxChars - 100, the floor left out
TruncateTextNoFloor(text, maxChars) ==
    IF Len(text) <= maxChars THEN text
    ELSE LET keepChars == Max(0, maxChars - 100)
             searchEnd == SearchEnd(keepChars)
             lastNewline == LastIndexOfNewline(text, keepChars)
             cutAt == IF lastNewline > searchEnd THEN lastNewline ELSE keepChars
         IN Slice(text, cutAt) \o "\n\n[Truncated: showing first "
               \o ToString(cutAt) \o " of " \o ToString(Len(text))
               \o " characters]"

TruncateText(text, maxChars) ==
    IF Len(text) <= maxChars THEN text
    ELSE LET keepChars == Max(MIN_KEEP_CHARS, maxChars - 100)
             searchEnd == SearchEnd(keepChars)
             lastNewline == LastIndexOfNewline(text, keepChars)
             cutAt == IF lastNewline > searchEnd THEN lastNewline ELSE keepChars
         IN Slice(text, cutAt) \o "\n\n[Truncated: showing first "
               \o ToString(cutAt) \o " of " \o ToString(Len(text))
               \o " characters]"

(***************************************************************************)
(* Messages and content blocks.  content: string | ContentBlock[] is kept  *)
(* as the flag isString with the fields text and blocks.                   *)
(***************************************************************************)
TextBlock(t) ==
    [type |-> "text", text |-> t, id |-> "", name |-> "", input |-> "",
     tool_use_id |-> "", content |-> ""]

ToolUseBlock(i, n, inp) ==
    [type |-> "tool_use", text |-> "", id |-> i, name |-> n, input |-> inp,
     tool_use_id |-> "", content |-> ""]

ToolResultBlock(i, c) ==
    [type |-> "tool_result", text |-> "", id |-> "", name |-> "", input |-> "",
     tool_use_id |-> i, content |-> c]

StringMessage(r, t) == [role |-> r, isString |-> TRUE, text |-> t, blocks |-> <<>>]

BlockMessage(r, bs) == [role |-> r, isString |-> FALSE, text |-> "", blocks |-> bs]

(***************************************************************************)
(* Context preparer.                                                       *)
(***************************************************************************)
\* the backward scan with the test userCount >= maxTurns: the cut falls one
\* user message too late
RECURSIVE CutScanOffByOne(_, _, _, _)
CutScanOffByOne(msgs, maxTurns, i, userCount) ==
    IF i < 0 THEN 0
    ELSE IF msgs[i + 1].role = "user"
         THEN IF userCount + 1 >= maxTurns THEN i + 1
              ELSE CutScanOffByOne(msgs, maxTurns, i - 1, userCount + 1)
         ELSE CutScanOffByOne(msgs, maxTurns, i - 1, userCount)

\* the backward scan with the test userCount > maxTurns + 1: the window keeps
\* one user message more
RECURSIVE CutScanKeepsOneMore(_, _, _, _)
CutScanKeepsOneMore(msgs, maxTurns, i, userCount) ==
    IF i < 0 THEN 0
    ELSE IF msgs[i + 1].role = "user"
         THEN IF userCount + 1 > maxTurns + 1 THEN i + 1
              ELSE CutScanKeepsOneMore(msgs, maxTurns, i - 1, userCount + 1)
         ELSE CutScanKeepsOneMore(msgs, maxTurns, i - 1, userCount)

\* the backward scan with cutIndex = i: the window starts at the user message
\* the count stopped at
RECURSIVE CutScanAtUser(_, _, _, _)
CutScanAtUser(msgs, maxTurns, i, userCount) ==
    IF i < 0 THEN 0
    ELSE IF msgs[i + 1].role = "user"
         THEN IF userCount + 1 > maxTurns THEN i
              ELSE CutScanAtUser(msgs, maxTurns, i - 1, userCount + 1)
         ELSE CutScanAtUser(msgs, maxTurns, i - 1, userCount)

\* the backward scan counting every message, whatever its role
RECURSIVE CutScanAnyRole(_, _, _, _)
CutScanAnyRole(msgs, maxTurns, i, userCount) ==
    IF i < 0 THEN 0
    ELSE IF userCount + 1 > maxTurns THEN i + 1
         ELSE CutScanAnyRole(msgs, maxTurns, i - 1, userCount + 1)

\* the backward scan of limitHistoryTurns from 0-based index i; the value is
\* cutIndex
RECURSIVE CutScan(_, _, _, _)
CutScan(msgs, maxTurns, i, userCount) ==
    IF i < 0 THEN 0
    ELSE IF msgs[i + 1].role = "user"
         THEN IF userCount + 1 > maxTurns THEN i + 1
              ELSE CutScan(msgs, maxTurns, i - 1, userCount + 1)
         ELSE CutScan(msgs, maxTurns, i - 1, userCount)

\* limitHistoryTurns with messages.slice(i): the window starts at the user
\* message the count stopped at
LimitHistoryTurnsFromUser(msgs, maxTurns) ==
    IF maxTurns <= 0 THEN msgs
    ELSE LET cutIndex == CutScan(msgs, maxTurns, Len(msgs) - 1, 0)
         IN SubSeq(msgs, Max(cutIndex, 1), Len(msgs))

LimitHistoryTurns(msgs, maxTurns) ==
    IF maxTurns <= 0 THEN msgs
    ELSE SubSeq(msgs, CutScan(msgs, maxTurns, Len(msgs) - 1, 0) + 1, Len(msgs))

TruncateBlock(block, maxChars) ==
    IF block.type # "tool_result" THEN block
    ELSE IF Len(block.content) > maxChars
         THEN [block EXCEPT !.content = TruncateText(block.content, maxChars)]
         ELSE block

TruncateToolResults(msgs, maxChars) ==
    [k \in 1..Len(msgs) |->
        LET msg == msgs[k] IN
        IF msg.role # "user" \/ msg.isString THEN msg
        ELSE IF ~ \E j \in 1..Len(msg.blocks) : msg.blocks[j].type = "tool_result"
             THEN msg
             ELSE [msg EXCEPT !.blocks =
                      [j \in 1..Len(msg.blocks) |->
                          TruncateBlock(msg.blocks[j], maxChars)]]]

\* the Set toolUseIds of removeOrphanedToolResults
ToolUseIds(msgs) ==
    UNION {IF msgs[k].role = "assistant" /\ ~ msgs[k].isString
           THEN {msgs[k].blocks[j].id :
                    j \in {i \in 1..Len(msgs[k].blocks) :
                              msgs[k].blocks[i].type = "tool_use"}}
           ELSE {} : k \in 1..Len(msgs)}

\* msg.content.filter(...) of removeOrphanedToolResults
RECURSIVE FilterBlocks(_, _)
FilterBlocks(blocks, toolUseIds) ==
    IF blocks = <<>> THEN <<>>
    ELSE LET block == Head(blocks)
             keep == IF block.type # "tool_result" THEN TRUE
                     ELSE block.tool_use_id \in toolUseIds
         IN (IF keep THEN <<block>> ELSE <<>>)
               \o FilterBlocks(Tail(blocks), toolUseIds)

\* the map of removeOrphanedToolResults followed by its filter of nulls
RECURSIVE DropOrphans(_, _)
DropOrphans(msgs, toolUseIds) ==
    IF msgs = <<>> THEN <<>>
    ELSE LET msg == Head(msgs)
             filtered == FilterBlocks(msg.blocks, toolUseIds)
             mapped == IF msg.role # "user" \/ msg.isString THEN <<msg>>
                       ELSE IF Len(filtered) = 0 THEN <<>>
                            ELSE <<[msg EXCEPT !.blocks = filtered]>>
         IN mapped \o DropOrphans(Tail(msgs), toolUseIds)

RemoveOrphanedToolResults(msgs) == DropOrphans(msgs, ToolUseIds(msgs))

\* the stages in another order: orphan cleanup before the window is cut
PrepareContextCleanupFirst(msgs, cfg) ==
    TruncateToolResults(
        LimitHistoryTurns(RemoveOrphanedToolResults(msgs), cfg.maxHistoryTurns),
        Min(cfg.maxToolResultChars, HARD_MAX_TOOL_RESULT_CHARS))

\* the stages with the configured cap alone, the hard ceiling left out
PrepareContextNoCeiling(msgs, cfg) ==
    RemoveOrphanedToolResults(
        TruncateToolResults(LimitHistoryTurns(msgs, cfg.maxHistoryTurns),
                            cfg.maxToolResultChars))

\* the three stages in the order of the code; each stage is applied once to
\* the value of `result` the stage before it has left
PrepareContext(msgs, cfg) ==
    LET maxResultChars == Min(cfg.maxToolResultChars, HARD_MAX_TOOL_RESULT_CHARS)
    IN CHOOSE result \in
           {RemoveOrphanedToolResults(truncated) :
               truncated \in
                   {TruncateToolResults(limited, maxResultChars) :
                       limited \in {LimitHistoryTurns(msgs, cfg.maxHistoryTurns)}}} :
           TRUE

\* truncation written into the blocks of the array handed in
TruncateInPlace(msgs, cfg) ==
    TruncateToolResults(msgs, Min(cfg.maxToolResultChars, HARD_MAX_TOOL_RESULT_CHARS))

\* the array handed to prepareContext as the call leaves it: the function
\* works on the copy [...messages] and builds new arrays, messages and blocks
InputAfterPrepare(msgs, cfg) == msgs

(***************************************************************************)
(* Values the model draws its inputs from.                                 *)
(***************************************************************************)
\* a tool output longer than every cap of ResultCaps, with one newline
LongOutput == Repeat("x", 2500) \o "\n" \o Repeat("x", 1499)

HistoryLimits == {0, 1, 2}
ResultCaps == {1000, 3000}
Configs == [maxHistoryTurns : HistoryLimits, maxToolResultChars : ResultCaps]
\* the defaults of the config
DefaultConfig == [maxHistoryTurns |-> 50, maxToolResultChars |-> 100000]
\* the configs the agent loop is run with
LoopConfigs == [maxHistoryTurns : HistoryLimits, maxToolResultChars : {3000}]

\* messages a transcript of the program is made of
MessagePool ==
    { StringMessage("user", "Turn"),
      StringMessage("assistant", "Resp"),
      BlockMessage("assistant", <<ToolUseBlock("tu1", "echo", "{}")>>),
      BlockMessage("assistant", <<TextBlock("Resp"), ToolUseBlock("tu1", "echo", "{}"),
                                  ToolUseBlock("tu2", "nope", "{}")>>),
      BlockMessage("user", <<ToolResultBlock("tu1", "ok")>>),
      BlockMessage("user", <<ToolResultBlock("tu1", LongOutput),
                             ToolResultBlock("tu2", "Error: Unknown tool \"nope\"")>>) }

Transcripts == UNION {[1..n -> MessagePool] : n \in 0..MaxLen}

\* how a call of tool.execute ends: it returns a string or throws an Error
NoOutcome == [kind |-> "none", value |-> ""]
Returned(v) == [kind |-> "return", value |-> v]
Threw(m) == [kind |-> "throw", value |-> m]

\* the agent loop before any turn
LoopIdle ==
    /\ messages = <<>>
    /\ journal = <<[type |-> "session"]>>
    /\ pc = "idle"
    /\ contextMessages = <<>>
    /\ adapterPhase = "closed"
    /\ currentText = ""
    /\ toolUses = <<>>
    /\ stopReason = "end_turn"
    /\ toolIndex = 0
    /\ toolResults = <<>>
    /\ pendingResult = ""
    /\ events = <<>>
    /\ turnStart = 0
    /\ rounds = 0
    /\ userMessage = ""
    /\ deltas = 0
    /\ execOutcome = NoOutcome

\* no stream of an adapter has been asked for
AdapterIdle ==
    /\ client = "none"
    /\ adapterPc = "idle"
    /\ upstream = <<>>
    /\ toolCalls = <<>>
    /\ finishStopReason = "end_turn"
    /\ finalMessage = [content |-> <<>>, stop_reason |-> "null"]
    /\ emitIndex = 0
    /\ yielded = <<>>

\* the websocket server with one connection and no session
ServerIdle ==
    /\ currentSession = 0
    /\ sessionFiles = <<>>
    /\ handlers = <<>>

\* no session file has been created
StoreIdle ==
    /\ raw = ""
    /\ sessionMessages = <<>>
    /\ written = <<>>
    /\ appended = <<>>
    /\ loadedMessages = <<>>
    /\ storePc = "none"

\* what spawnSubAgent returned: the result and the text events of the turn
NoReturn == [returned |-> FALSE, result |-> "", texts |-> <<>>]

\* no agent loop of the delegation model runs
SubagentIdle ==
    /\ stack = <<>>
    /\ agentSessions = <<>>
    /\ spawnTools = {}
    /\ lastReturn = NoReturn
    /\ responses = 0

\* activeHours of a config without active hours
NoActiveHours == [start |-> "", end |-> ""]

NoTick == [ticked |-> FALSE, activeHours |-> NoActiveHours, hours |-> 0, minutes |-> 0,
           exists |-> FALSE, content |-> "", invoked |-> FALSE]

NoDelivery == [resolved |-> FALSE, response |-> "", broadcast |-> FALSE]

\* new Heartbeat()
HeartbeatIdle ==
    /\ timer = 0
    /\ timers = <<>>
    /\ stopReturned = FALSE
    /\ lastTick = NoTick
    /\ turnCalls = <<>>
    /\ pendingTurns = <<>>
    /\ lastDelivery = NoDelivery

SkillFileNames == <<"calc.md", "tone.md">>

NoTurn == [tools |-> <<>>, systemPrompt |-> "", memoryContext |-> ""]

\* before main has run, with an empty skills directory
SkillsIdle ==
    /\ skillsDir = [f \in 1..Len(SkillFileNames) |-> 0]
    /\ skillArrays = <<>>
    /\ skills = 0
    /\ depsSkills = 0
    /\ allTools = <<>>
    /\ debounceTimer = FALSE
    /\ lastTurn = NoTurn
    /\ turnsStarted = 0

\* before startAllMCPServers is called
McpIdle ==
    /\ mcpPhase = "idle"
    /\ mcpConfig = <<>>
    /\ startAttempts = <<>>
    /\ servers = <<>>
    /\ closeAttempts = <<>>

\* no stream is being received
RoundIdle ==
    /\ stream = <<>>
    /\ streamPos = 0

\* the components around the agent loop before anything has run
HostIdle ==
    /\ ServerIdle
    /\ StoreIdle
    /\ SubagentIdle
    /\ HeartbeatIdle
    /\ SkillsIdle
    /\ McpIdle
    /\ RoundIdle

(***************************************************************************)
(* The context preparer on its own: prepareContext applied to a transcript.*)
(***************************************************************************)
InitCtx ==
    /\ LoopIdle
    /\ AdapterIdle
    /\ HostIdle
    /\ config \in Configs
    /\ input \in Transcripts
    /\ limitedResult = <<>>
    /\ output = <<>>
    /\ phase = "given"

\* prepareContext(messages, config)
PrepareCall ==
    /\ phase = "given"
    /\ limitedResult' = LimitHistoryTurns(input, config.maxHistoryTurns)
    /\ output' = PrepareContext(input, config)
    /\ input' = InputAfterPrepare(input, config)
    /\ phase' = "prepared"
    /\ UNCHANGED <<loopVars, adapterVars, hostVars>>

\* prepareContext applied to the context a call of it has returned
PrepareAgain ==
    /\ phase = "prepared"
    /\ input' = output
    /\ limitedResult' = LimitHistoryTurns(output, config.maxHistoryTurns)
    /\ output' = PrepareContext(output, config)
    /\ phase' = "prepared again"
    /\ UNCHANGED <<loopVars, adapterVars, hostVars>>

NextCtx == PrepareCall \/ PrepareAgain

SpecCtx == InitCtx /\ [][NextCtx]_vars

(***************************************************************************)
(* The context preparer applied to one tool round whose result has a       *)
(* given length and a newline at a given place.                            *)
(***************************************************************************)
\* a text of len characters with a newline at the 0-based index nl, without
\* a newline when nl is not an index of the text
TextOf(len, nl) ==
    IF nl >= 0 /\ nl < len
    THEN Repeat("x", nl) \o "\n" \o Repeat("x", len - nl - 1)
    ELSE Repeat("x", len)

ContentLengths == {1500, 2000, 2001, 2060, 4000}
NewlineAt == {-1, 1600, 1601, 1700, 2000}
\* lengths at the hard ceiling and right above it
CeilingLengths == {HARD_MAX_TOOL_RESULT_CHARS, HARD_MAX_TOOL_RESULT_CHARS + 1}
Contents ==
    {TextOf(len, nl) : len \in ContentLengths, nl \in NewlineAt}
        \cup {TextOf(len, -1) : len \in CeilingLengths}
TruncCaps == {1000, 2000, 3000, HARD_MAX_TOOL_RESULT_CHARS, 1000000}
TruncConfigs == [maxHistoryTurns : {0}, maxToolResultChars : TruncCaps]

\* an assistant message with one tool_use and the user message with its result
ToolRound(content) ==
    << BlockMessage("assistant", <<ToolUseBlock("tu1", "echo", "{}")>>),
       BlockMessage("user", <<ToolResultBlock("tu1", content)>>) >>

InitTrunc ==
    /\ LoopIdle
    /\ AdapterIdle
    /\ HostIdle
    /\ config \in TruncConfigs
    /\ input \in {ToolRound(content) : content \in Contents}
    /\ limitedResult = <<>>
    /\ output = <<>>
    /\ phase = "given"

SpecTrunc == InitTrunc /\ [][NextCtx]_vars

(***************************************************************************)
(* The session journal.                                                    *)
(***************************************************************************)
\* the MessageEntry appendMessage writes for a message
MessageEntry(m) ==
    [type |-> "message", role |-> m.role, isString |-> m.isString,
     text |-> m.text, blocks |-> m.blocks]

\* a push that skips a message without content blocks
AppendNonEmpty(msgs, m) == IF ~ m.isString /\ m.blocks = <<>> THEN msgs ELSE Append(msgs, m)

\* session.messages.unshift(message)
PrependMessage(msgs, m) == <<m>> \o msgs

\* session.messages.push(message)
AppendMessage(msgs, m) == Append(msgs, m)

\* appendFileSync(session.filePath, JSON.stringify(entry) + "\n")
AppendEntry(entries, m) == Append(entries, MessageEntry(m))

(***************************************************************************)
(* The agent loop: agentTurn, a generator that is suspended at each yield  *)
(* until its consumer asks for the next event.                             *)
(***************************************************************************)
Texts == {"Turn"}
Deltas == {"Hi"}
StopReasons == {"end_turn", "tool_use", "max_tokens"}
Catalog == {"echo"}
ToolCalls ==
    { [id |-> "tu1", name |-> "echo", input |-> "{}"],
      [id |-> "tu2", name |-> "nope", input |-> "{}"] }
ToolOutputs == {"ok", LongOutput}
ErrorMessages == {"Something broke"}

\* executeTool without its try/catch
ExecuteToolNoCatch(name, outcome) ==
    IF name \notin Catalog
    THEN [threw |-> FALSE, value |-> "Error: Unknown tool \"" \o name \o "\""]
    ELSE IF outcome.kind = "return"
         THEN [threw |-> FALSE, value |-> outcome.value]
         ELSE [threw |-> TRUE, value |-> outcome.value]

\* executeTool: the string it returns, or the fault it lets through
ExecuteTool(name, outcome) ==
    IF name \notin Catalog
    THEN [threw |-> FALSE, value |-> "Error: Unknown tool \"" \o name \o "\""]
    ELSE IF outcome.kind = "return"
         THEN [threw |-> FALSE, value |-> outcome.value]
         ELSE [threw |-> FALSE,
               value |-> "Error executing tool \"" \o name \o "\": " \o outcome.value]

TextEvent(t) == [type |-> "text", text |-> t, name |-> "", input |-> "", result |-> ""]
ToolStartEvent(tu) ==
    [type |-> "tool_start", text |-> "", name |-> tu.name, input |-> tu.input, result |-> ""]
ToolEndEvent(tu, r) ==
    [type |-> "tool_end", text |-> "", name |-> tu.name, input |-> "", result |-> r]

\* the content blocks with the tool_use blocks pushed before the text block
ContentBlocksTextLast(text, tus) ==
    [k \in 1..Len(tus) |-> ToolUseBlock(tus[k].id, tus[k].name, tus[k].input)]
        \o (IF text # "" THEN <<TextBlock(text)>> ELSE <<>>)

\* the content blocks agentTurn builds for the assistant message of a round
ContentBlocks(text, tus) ==
    (IF text # "" THEN <<TextBlock(text)>> ELSE <<>>)
        \o [k \in 1..Len(tus) |-> ToolUseBlock(tus[k].id, tus[k].name, tus[k].input)]

\* the assistant message of a round
AssistantMessage(text, tus) ==
    LET contentBlocks == ContentBlocks(text, tus)
    IN IF Len(contentBlocks) = 1 /\ contentBlocks[1].type = "text"
       THEN StringMessage("assistant", contentBlocks[1].text)
       ELSE BlockMessage("assistant", contentBlocks)

\* tool_use events of the current turn: those of the rounds already appended
\* and those buffered in this round
CallsOfTurn ==
    Cardinality({p \in ((turnStart + 1)..Len(messages)) \X (1..(MaxTools + 1)) :
                    /\ ~ messages[p[1]].isString
                    /\ p[2] <= Len(messages[p[1]].blocks)
                    /\ messages[p[1]].blocks[p[2]].type = "tool_use"})
        + Len(toolUses)

\* toolResults.unshift(...)
PushResultFront(results, block) == <<block>> \o results

\* toolResults.push({type: "tool_result", tool_use_id, content})
PushResult(results, block) == Append(results, block)

\* a loop that also ends on the stop reason end_turn
EndsOnEndTurn(tus, n) == Len(tus) = 0 \/ stopReason = "end_turn"

\* a loop that also ends after its second round
EndsAfterTwoRounds(tus, n) == Len(tus) = 0 \/ n >= 2

\* the test that ends the loop: if (toolUses.length === 0) break
NoToolUse(tus, n) == Len(tus) = 0

Init ==
    /\ LoopIdle
    /\ AdapterIdle
    /\ HostIdle
    /\ config \in LoopConfigs
    /\ input = <<>>
    /\ limitedResult = <<>>
    /\ output = <<>>
    /\ phase = "unused"

\* the caller starts a turn: agentTurn appends the user message
StartTurn(text) ==
    /\ pc \in {"idle", "done", "failed", "stopped"}
    /\ Len(messages) + 2 <= MaxMsgs
    /\ messages' = AppendMessage(messages, StringMessage("user", text))
    /\ journal' = AppendEntry(journal, StringMessage("user", text))
    /\ userMessage' = text
    /\ turnStart' = Len(messages)
    /\ rounds' = 0
    /\ events' = <<>>
    /\ pc' = "round"
    /\ contextMessages' = <<>>
    /\ adapterPhase' = "closed"
    /\ currentText' = ""
    /\ toolUses' = <<>>
    /\ stopReason' = "end_turn"
    /\ toolIndex' = 0
    /\ toolResults' = <<>>
    /\ pendingResult' = ""
    /\ deltas' = 0
    /\ execOutcome' = NoOutcome
    /\ UNCHANGED <<config, ctxVars, adapterVars, hostVars>>

\* top of the while loop: the locals of the round, prepareContext, client.stream
CallAdapter ==
    /\ pc = "round"
    /\ contextMessages' = PrepareContext(messages, config)
    /\ messages' = InputAfterPrepare(messages, config)
    /\ currentText' = ""
    /\ toolUses' = <<>>
    /\ stopReason' = "end_turn"
    /\ toolIndex' = 0
    /\ toolResults' = <<>>
    /\ pendingResult' = ""
    /\ deltas' = 0
    /\ execOutcome' = NoOutcome
    /\ rounds' = rounds + 1
    /\ adapterPhase' = "text"
    /\ pc' = "streaming"
    /\ UNCHANGED <<journal, config, events, turnStart, userMessage, ctxVars, adapterVars, hostVars>>

\* the adapter sends a text delta; agentTurn accumulates it and yields it
AdapterText(t) ==
    /\ pc = "streaming"
    /\ adapterPhase = "text"
    /\ deltas < MaxDeltas
    /\ deltas' = deltas + 1
    /\ currentText' = currentText \o t
    /\ events' = Append(events, TextEvent(t))
    /\ pc' = "yield_text"
    /\ UNCHANGED <<messages, journal, config, contextMessages, adapterPhase, toolUses,
                   stopReason, toolIndex, toolResults, pendingResult, turnStart,
                   rounds, userMessage, execOutcome, ctxVars, adapterVars, hostVars>>

\* the consumer asks for the next event after a text delta
ResumeText ==
    /\ pc = "yield_text"
    /\ pc' = "streaming"
    /\ UNCHANGED <<messages, journal, config, contextMessages, adapterPhase, currentText,
                   toolUses, stopReason, toolIndex, toolResults, pendingResult, events,
                   turnStart, rounds, userMessage, deltas, execOutcome, ctxVars, adapterVars, hostVars>>

\* the adapter sends a tool_use event, after the upstream stream has closed;
\* agentTurn buffers it
AdapterToolUse(tu) ==
    /\ pc = "streaming"
    /\ adapterPhase \in {"text", "tools"}
    /\ Len(toolUses) < MaxTools
    /\ CallsOfTurn < MaxCalls
    /\ Len(messages) + 3 <= MaxMsgs
    /\ toolUses' = Append(toolUses, tu)
    /\ adapterPhase' = "tools"
    /\ UNCHANGED <<messages, journal, config, pc, contextMessages, currentText,
                   stopReason, toolIndex, toolResults, pendingResult, events, turnStart,
                   rounds, userMessage, deltas, execOutcome, ctxVars, adapterVars, hostVars>>

\* the adapter sends message_stop, its last event; agentTurn reads the reason
AdapterStop(reason) ==
    /\ pc = "streaming"
    /\ adapterPhase \in {"text", "tools"}
    /\ stopReason' = reason
    /\ adapterPhase' = "stopped"
    /\ UNCHANGED <<messages, journal, config, pc, contextMessages, currentText,
                   toolUses, toolIndex, toolResults, pendingResult, events, turnStart,
                   rounds, userMessage, deltas, execOutcome, ctxVars, adapterVars, hostVars>>

\* a failure handler that keeps the text streamed so far as an assistant message
AdapterFailKeepsText ==
    /\ pc = "streaming"
    /\ adapterPhase \in {"text", "tools"}
    /\ adapterPhase' = "closed"
    /\ pc' = "failed"
    /\ messages' = IF currentText = "" THEN messages
                   ELSE Append(messages, StringMessage("assistant", currentText))
    /\ journal' = IF currentText = "" THEN journal
                  ELSE Append(journal, MessageEntry(StringMessage("assistant", currentText)))
    /\ UNCHANGED <<config, contextMessages, currentText, toolUses,
                   stopReason, toolIndex, toolResults, pendingResult, events, turnStart,
                   rounds, userMessage, deltas, execOutcome, ctxVars, adapterVars, hostVars>>

\* the adapter's stream throws (network, auth, rate limit): the for await of
\* agentTurn rethrows and the generator ends with the error
AdapterFail ==
    /\ pc = "streaming"
    /\ adapterPhase \in {"text", "tools"}
    /\ adapterPhase' = "closed"
    /\ pc' = "failed"
    /\ UNCHANGED <<messages, journal, config, contextMessages, currentText, toolUses,
                   stopReason, toolIndex, toolResults, pendingResult, events, turnStart,
                   rounds, userMessage, deltas, execOutcome, ctxVars, adapterVars, hostVars>>

\* the stream ends: agentTurn appends the assistant message, then either ends
\* the turn or yields the first tool_start
StreamClose ==
    /\ pc = "streaming"
    /\ adapterPhase = "stopped"
    /\ adapterPhase' = "closed"
    /\ messages' = AppendMessage(messages, AssistantMessage(currentText, toolUses))
    /\ journal' = AppendEntry(journal, AssistantMessage(currentText, toolUses))
    /\ IF NoToolUse(toolUses, rounds)
       THEN /\ pc' = "done"
            /\ UNCHANGED <<toolIndex, events>>
       ELSE /\ pc' = "tool_start"
            /\ toolIndex' = 1
            /\ events' = Append(events, ToolStartEvent(toolUses[1]))
    /\ UNCHANGED <<config, contextMessages, currentText, toolUses, stopReason,
                   toolResults, pendingResult, turnStart, rounds, userMessage, deltas,
                   execOutcome, ctxVars, adapterVars, hostVars>>

\* the consumer asks for the next event after tool_start: executeTool is called
ResumeToolStart ==
    /\ pc = "tool_start"
    /\ pc' = "executing"
    /\ UNCHANGED <<messages, journal, config, contextMessages, adapterPhase, currentText,
                   toolUses, stopReason, toolIndex, toolResults, pendingResult, events,
                   turnStart, rounds, userMessage, deltas, execOutcome, ctxVars, adapterVars, hostVars>>

\* executeTool settles, the executor having ended with outcome; agentTurn
\* yields tool_end
ToolSettles(outcome) ==
    /\ pc = "executing"
    /\ LET tu == toolUses[toolIndex]
           r == ExecuteTool(tu.name, outcome)
       IN /\ execOutcome' = IF tu.name \in Catalog THEN outcome ELSE NoOutcome
          /\ IF r.threw
             THEN /\ pc' = "failed"
                  /\ UNCHANGED <<pendingResult, events>>
             ELSE /\ pc' = "tool_end"
                  /\ pendingResult' = r.value
                  /\ events' = Append(events, ToolEndEvent(tu, r.value))
    /\ UNCHANGED <<messages, journal, config, contextMessages, adapterPhase, currentText,
                   toolUses, stopReason, toolIndex, toolResults, turnStart, rounds,
                   userMessage, deltas, ctxVars, adapterVars, hostVars>>

\* the consumer asks for the next event after tool_end: the result is pushed,
\* then the next tool_start is yielded or the tool results are appended
ResumeToolEnd ==
    /\ pc = "tool_end"
    /\ LET tu == toolUses[toolIndex]
           results == PushResult(toolResults, ToolResultBlock(tu.id, pendingResult))
       IN /\ toolResults' = results
          /\ IF toolIndex < Len(toolUses)
             THEN /\ toolIndex' = toolIndex + 1
                  /\ events' = Append(events, ToolStartEvent(toolUses[toolIndex + 1]))
                  /\ pc' = "tool_start"
                  /\ UNCHANGED <<messages, journal>>
             ELSE /\ messages' = AppendMessage(messages, BlockMessage("user", results))
                  /\ journal' = AppendEntry(journal, BlockMessage("user", results))
                  /\ pc' = "round"
                  /\ UNCHANGED <<toolIndex, events>>
    /\ UNCHANGED <<config, contextMessages, adapterPhase, currentText, toolUses,
                   stopReason, pendingResult, turnStart, rounds, userMessage, deltas,
                   execOutcome, ctxVars, adapterVars, hostVars>>

\* a generator whose return undoes the appends of the turn
ConsumerStopRollsBack ==
    /\ pc \in {"yield_text", "tool_start", "tool_end"}
    /\ pc' = "stopped"
    /\ messages' = SubSeq(messages, 1, turnStart)
    /\ UNCHANGED <<journal, config, contextMessages, adapterPhase, currentText,
                   toolUses, stopReason, toolIndex, toolResults, pendingResult, events,
                   turnStart, rounds, userMessage, deltas, execOutcome, ctxVars, adapterVars, hostVars>>

\* the consumer stops iterating at a yield: the generator returns there
ConsumerStop ==
    /\ pc \in {"yield_text", "tool_start", "tool_end"}
    /\ pc' = "stopped"
    /\ UNCHANGED <<messages, journal, config, contextMessages, adapterPhase, currentText,
                   toolUses, stopReason, toolIndex, toolResults, pendingResult, events,
                   turnStart, rounds, userMessage, deltas, execOutcome, ctxVars, adapterVars, hostVars>>

Outcomes == {Returned(v) : v \in ToolOutputs} \cup {Threw(m) : m \in ErrorMessages}

Next ==
    \/ \E text \in Texts : StartTurn(text)
    \/ CallAdapter
    \/ \E t \in Deltas : AdapterText(t)
    \/ ResumeText
    \/ \E tu \in ToolCalls : AdapterToolUse(tu)
    \/ \E reason \in StopReasons : AdapterStop(reason)
    \/ AdapterFail
    \/ StreamClose
    \/ ResumeToolStart
    \/ \E outcome \in Outcomes : ToolSettles(outcome)
    \/ ResumeToolEnd
    \/ ConsumerStop

Spec == Init /\ [][Next]_vars

\* a step of the turn in flight: the adapter sends its next event or fails, a
\* tool executor settles, the consumer asks for the next event or stops
TurnStep ==
    \/ CallAdapter
    \/ \E t \in Deltas : AdapterText(t)
    \/ ResumeText
    \/ \E tu \in ToolCalls : AdapterToolUse(tu)
    \/ \E reason \in StopReasons : AdapterStop(reason)
    \/ AdapterFail
    \/ StreamClose
    \/ ResumeToolStart
    \/ \E outcome \in Outcomes : ToolSettles(outcome)
    \/ ResumeToolEnd
    \/ ConsumerStop

\* the steps of turns that run to completion: the adapter does not fail and
\* the consumer iterates to the end
NextCompleted ==
    \/ \E text \in Texts : StartTurn(text)
    \/ CallAdapter
    \/ \E t \in Deltas : AdapterText(t)
    \/ ResumeText
    \/ \E tu \in ToolCalls : AdapterToolUse(tu)
    \/ \E reason \in StopReasons : AdapterStop(reason)
    \/ StreamClose
    \/ ResumeToolStart
    \/ \E outcome \in Outcomes : ToolSettles(outcome)
    \/ ResumeToolEnd

\* a session whose turns all run to completion, one at a time
SpecCompleted == Init /\ [][NextCompleted]_vars

\* the agent loop under the default config
InitDefault ==
    /\ LoopIdle
    /\ AdapterIdle
    /\ HostIdle
    /\ config = DefaultConfig
    /\ input = <<>>
    /\ limitedResult = <<>>
    /\ output = <<>>
    /\ phase = "unused"

\* the agent loop when no party of a turn waits for ever
FairSpec == InitDefault /\ [][Next]_vars /\ WF_vars(TurnStep)

(***************************************************************************)
(* The adapters on their own: AnthropicClient.stream (block-native) and    *)
(* OpenAIClient.stream (delta-accumulate), each a generator fed by an      *)
(* upstream stream.  An absent or null field of an upstream object is the  *)
(* string "" (id, name, arguments, content) or "null" (finish_reason,      *)
(* stop_reason).                                                           *)
(***************************************************************************)
MaxChunks == 3      \* most events or chunks one upstream stream delivers

\* events an adapter yields
AdapterTextEvent(t) ==
    [type |-> "text", text |-> t, id |-> "", name |-> "", input |-> {},
     stop_reason |-> ""]
AdapterToolUseEvent(i, n, inp) ==
    [type |-> "tool_use", text |-> "", id |-> i, name |-> n, input |-> inp,
     stop_reason |-> ""]
MessageStopEvent(r) ==
    [type |-> "message_stop", text |-> "", id |-> "", name |-> "", input |-> {},
     stop_reason |-> r]

\* JSON.parse on the argument texts of the model: an object is the set of
\* its <<key, value>> pairs, any other text is a SyntaxError
JsonParse(text) ==
    IF text = "{}" THEN [ok |-> TRUE, value |-> {}]
    ELSE IF text = "{\"a\":1}" THEN [ok |-> TRUE, value |-> {<<"a", 1>>}]
    ELSE [ok |-> FALSE, value |-> {}]

\* let input = {}; try { input = JSON.parse(tc.args) } catch {}
ParseArgs(args) ==
    LET parsed == JsonParse(args)
    IN [ok |-> TRUE, value |-> IF parsed.ok THEN parsed.value ELSE {}]

\* existing.args = tc.function.arguments
OverwriteArgs(args, fragment) == IF fragment # "" THEN fragment ELSE args

\* existing.args += tc.function.arguments
AppendArgs(args, fragment) == IF fragment # "" THEN args \o fragment ELSE args

\* the entry of the Map toolCalls for a call index, 0 if there is none
EntryOf(calls, index) ==
    IF \E k \in 1..Len(calls) : calls[k].index = index
    THEN CHOOSE k \in 1..Len(calls) : calls[k].index = index
    ELSE 0

\* the body of `for (const tc of delta.tool_calls)` for one tc
ApplyToolCallDelta(calls, tc) ==
    LET had == EntryOf(calls, tc.index)
        set == IF had = 0
               THEN Append(calls, [index |-> tc.index, id |-> tc.id,
                                   name |-> tc.name, args |-> ""])
               ELSE calls
        k == EntryOf(set, tc.index)
    IN [set EXCEPT ![k] =
           [index |-> @.index,
            id |-> IF tc.id # "" THEN tc.id ELSE @.id,
            name |-> IF tc.name # "" THEN tc.name ELSE @.name,
            args |-> AppendArgs(@.args, tc.arguments)]]

RECURSIVE ApplyToolCallDeltas(_, _)
ApplyToolCallDeltas(calls, tcs) ==
    IF tcs = <<>> THEN calls
    ELSE ApplyToolCallDeltas(ApplyToolCallDelta(calls, Head(tcs)), Tail(tcs))

\* finish_reason as OpenAIClient.stream reads it into stopReason
ReadFinishReason(current, finishReason) ==
    IF finishReason = "tool_calls" THEN "tool_use"
    ELSE IF finishReason = "stop" THEN "end_turn"
    ELSE current

\* stop_reason ?? "end_turn"
StopReasonOrDefault(reason) == IF reason = "null" THEN "end_turn" ELSE reason

\* chunks of chat.completions: choices[0].delta and choices[0].finish_reason
Chunk(hasDelta, content, tcs, finishReason) ==
    [hasDelta |-> hasDelta, content |-> content, tool_calls |-> tcs,
     finish_reason |-> finishReason]
ToolCallDelta(index, i, n, arguments) ==
    [index |-> index, id |-> i, name |-> n, arguments |-> arguments]

ArgumentFragments == {"{\"a\"", ":1}", "{}"}
FinishReasons == {"stop", "tool_calls", "length", "content_filter"}
ToolCallDeltas ==
    {ToolCallDelta(0, "call0", "echo", "")}
        \cup {ToolCallDelta(1, "call1", "nope", f) : f \in {"{\"a\"", "{}"}}
        \cup {ToolCallDelta(index, "", "", f) : index \in {0, 1}, f \in ArgumentFragments}
Chunks ==
    {Chunk(TRUE, "Hi", <<>>, "null"), Chunk(FALSE, "", <<>>, "stop")}
        \cup {Chunk(TRUE, "", <<tc>>, "null") : tc \in ToolCallDeltas}
        \cup {Chunk(TRUE, "", <<ToolCallDelta(1, "call1", "nope", "{}"),
                                ToolCallDelta(0, "call0", "echo", "{}")>>, "null")}
        \cup {Chunk(TRUE, "", <<>>, r) : r \in FinishReasons}

\* events of messages.stream: content_block_delta with a text_delta or an
\* input_json_delta, and events of another type
StreamEvents ==
    { [type |-> "content_block_delta", delta |-> "text_delta", text |-> "Hi"],
      [type |-> "content_block_delta", delta |-> "input_json_delta", text |-> ""],
      [type |-> "content_block_start", delta |-> "", text |-> ""] }

UpstreamStopReasons == {"null", "end_turn", "tool_use", "max_tokens", "stop_sequence"}

\* content blocks of stream.finalMessage(), their input an object
FinalTextBlock(t) ==
    [type |-> "text", text |-> t, id |-> "", name |-> "", input |-> {}]
FinalToolUseBlock(i, n, inp) ==
    [type |-> "tool_use", text |-> "", id |-> i, name |-> n, input |-> inp]
FinalContents ==
    { <<>>,
      <<FinalTextBlock("Hi")>>,
      <<FinalToolUseBlock("tu1", "echo", {<<"a", 1>>})>>,
      <<FinalTextBlock("Hi"), FinalToolUseBlock("tu1", "echo", {}),
        FinalToolUseBlock("tu2", "nope", {})>> }
FinalMessages == [content : FinalContents, stop_reason : UpstreamStopReasons]

\* client.stream(params): the generator starts with fresh locals
StreamStart(c) ==
    /\ adapterPc \in {"idle", "stopped", "upstream failed", "threw"}
    /\ client' = c
    /\ adapterPc' = "reading"
    /\ upstream' = <<>>
    /\ toolCalls' = <<>>
    /\ finishStopReason' = "end_turn"
    /\ finalMessage' = [content |-> <<>>, stop_reason |-> "null"]
    /\ emitIndex' = 0
    /\ yielded' = <<>>
    /\ UNCHANGED <<loopVars, ctxVars, hostVars>>

\* OpenAIClient.stream: one turn of `for await (const chunk of stream)`
OpenAIChunk(chunk) ==
    /\ client = "openai"
    /\ adapterPc = "reading"
    /\ Len(upstream) < MaxChunks
    /\ upstream' = Append(upstream, chunk)
    /\ IF ~ chunk.hasDelta
       THEN UNCHANGED <<yielded, toolCalls, finishStopReason>>
       ELSE /\ yielded' = IF chunk.content # ""
                          THEN Append(yielded, AdapterTextEvent(chunk.content))
                          ELSE yielded
            /\ toolCalls' = ApplyToolCallDeltas(toolCalls, chunk.tool_calls)
            /\ finishStopReason' = ReadFinishReason(finishStopReason, chunk.finish_reason)
    /\ UNCHANGED <<client, adapterPc, finalMessage, emitIndex, loopVars, ctxVars, hostVars>>

\* AnthropicClient.stream: one turn of `for await (const event of stream)`
AnthropicEvent(event) ==
    /\ client = "anthropic"
    /\ adapterPc = "reading"
    /\ Len(upstream) < MaxChunks
    /\ upstream' = Append(upstream, event)
    /\ yielded' = IF event.type = "content_block_delta" /\ event.delta = "text_delta"
                   THEN Append(yielded, AdapterTextEvent(event.text))
                   ELSE yielded
    /\ UNCHANGED <<client, adapterPc, toolCalls, finishStopReason, finalMessage,
                   emitIndex, loopVars, ctxVars, hostVars>>

\* OpenAIClient.stream: the chunk stream closes
OpenAIClose ==
    /\ client = "openai"
    /\ adapterPc = "reading"
    /\ adapterPc' = "emitting"
    /\ UNCHANGED <<client, upstream, toolCalls, finishStopReason, finalMessage,
                   emitIndex, yielded, loopVars, ctxVars, hostVars>>

\* AnthropicClient.stream: the event stream closes, await stream.finalMessage()
AnthropicClose(final) ==
    /\ client = "anthropic"
    /\ adapterPc = "reading"
    /\ adapterPc' = "emitting"
    /\ finalMessage' = final
    /\ UNCHANGED <<client, upstream, toolCalls, finishStopReason, emitIndex, yielded,
                   loopVars, ctxVars, hostVars>>

\* the upstream stream fails: the fault passes through the generator
UpstreamFail ==
    /\ adapterPc = "reading"
    /\ adapterPc' = "upstream failed"
    /\ UNCHANGED <<client, upstream, toolCalls, finishStopReason, finalMessage,
                   emitIndex, yielded, loopVars, ctxVars, hostVars>>

\* OpenAIClient.stream: one turn of `for (const [, tc] of toolCalls)`
OpenAIEmit ==
    /\ client = "openai"
    /\ adapterPc = "emitting"
    /\ emitIndex < Len(toolCalls)
    /\ LET tc == toolCalls[emitIndex + 1]
           parsed == ParseArgs(tc.args)
       IN IF parsed.ok
          THEN /\ yielded' = Append(yielded, AdapterToolUseEvent(tc.id, tc.name, parsed.value))
               /\ emitIndex' = emitIndex + 1
               /\ UNCHANGED adapterPc
          ELSE /\ adapterPc' = "threw"
               /\ UNCHANGED <<yielded, emitIndex>>
    /\ UNCHANGED <<client, upstream, toolCalls, finishStopReason, finalMessage,
                   loopVars, ctxVars, hostVars>>

\* AnthropicClient.stream: one turn of `for (const block of finalMessage.content)`
AnthropicEmit ==
    /\ client = "anthropic"
    /\ adapterPc = "emitting"
    /\ emitIndex < Len(finalMessage.content)
    /\ LET block == finalMessage.content[emitIndex + 1]
       IN yielded' = IF block.type = "tool_use"
                     THEN Append(yielded,
                                 AdapterToolUseEvent(block.id, block.name, block.input))
                     ELSE yielded
    /\ emitIndex' = emitIndex + 1
    /\ UNCHANGED <<client, adapterPc, upstream, toolCalls, finishStopReason,
                   finalMessage, loopVars, ctxVars, hostVars>>

\* the last yield of either adapter: message_stop
EmitStop ==
    /\ adapterPc = "emitting"
    /\ emitIndex = IF client = "openai" THEN Len(toolCalls)
                   ELSE Len(finalMessage.content)
    /\ yielded' = Append(yielded,
                      MessageStopEvent(IF client = "openai" THEN finishStopReason
                                       ELSE StopReasonOrDefault(finalMessage.stop_reason)))
    /\ adapterPc' = "stopped"
    /\ UNCHANGED <<client, upstream, toolCalls, finishStopReason, finalMessage,
                   emitIndex, loopVars, ctxVars, hostVars>>

InitAdapter ==
    /\ LoopIdle
    /\ AdapterIdle
    /\ HostIdle
    /\ config = DefaultConfig
    /\ input = <<>>
    /\ limitedResult = <<>>
    /\ output = <<>>
    /\ phase = "unused"

NextAdapter ==
    \/ \E c \in {"anthropic", "openai"} : StreamStart(c)
    \/ \E chunk \in Chunks : OpenAIChunk(chunk)
    \/ \E event \in StreamEvents : AnthropicEvent(event)
    \/ OpenAIClose
    \/ \E final \in FinalMessages : AnthropicClose(final)
    \/ UpstreamFail
    \/ OpenAIEmit
    \/ AnthropicEmit
    \/ EmitStop

SpecAdapter == InitAdapter /\ [][NextAdapter]_vars

(***************************************************************************)
(* The websocket server: startServer's handler of the messages of one      *)
(* connection.  The handler is an async function that the socket calls for *)
(* each message; a handler suspended in its for-await loop over agentTurn  *)
(* does not hold back the handler of the next message.  A session file is  *)
(* the sequence of <<handler, role>> of the messages appended to it.       *)
(***************************************************************************)
MaxSends == 2       \* most chat.send messages of the connection that start a turn
MaxSessions == 2    \* most session files
MaxRounds == 2      \* most adapter calls of a turn started by the server

\* the turn of a handler is suspended on the adapter or on a tool
InFlight(h) == handlers[h].at \in {"adapter", "tool"}

\* appendMessage(session, message) by the turn of handler h
AppendToFile(files, id, h, role) == [files EXCEPT ![id] = Append(@, <<h, role>>)]

\* case "session.create": currentSession = createSession()
SessionCreate ==
    /\ Len(sessionFiles) < MaxSessions
    /\ sessionFiles' = Append(sessionFiles, <<>>)
    /\ currentSession' = Len(sessionFiles) + 1
    /\ UNCHANGED <<handlers, besideServer>>

\* case "chat.history" with the id of a session file: currentSession = loadSession(id)
ChatHistory(sessionId) ==
    /\ sessionId \in 1..Len(sessionFiles)
    /\ currentSession # sessionId
    /\ currentSession' = sessionId
    /\ UNCHANGED <<sessionFiles, handlers, besideServer>>

\* case "chat.send" with a text: the session is the current one, the one loaded
\* for params.sessionId, or a new one; agentTurn appends the user message and
\* suspends on the adapter
ChatSend(sessionId) ==
    /\ Len(handlers) < MaxSends
    /\ LET load == currentSession = 0 /\ sessionId \in 1..Len(sessionFiles)
           create == currentSession = 0 /\ ~ load
           id == IF currentSession # 0 THEN currentSession
                 ELSE IF load THEN sessionId
                 ELSE Len(sessionFiles) + 1
           files == IF create THEN Append(sessionFiles, <<>>) ELSE sessionFiles
           h == Len(handlers) + 1
       IN /\ create => Len(sessionFiles) < MaxSessions
          /\ currentSession' = id
          /\ sessionFiles' = AppendToFile(files, id, h, "user")
          /\ handlers' = Append(handlers, [session |-> id, at |-> "adapter", rounds |-> 1])
    /\ UNCHANGED besideServer

\* the adapter stream of a turn ends: the assistant message is appended, then
\* the tools run or the turn is over and the handler sends "done"
TurnAdapterEnds(h, withTools) ==
    /\ h \in 1..Len(handlers)
    /\ handlers[h].at = "adapter"
    /\ withTools => handlers[h].rounds < MaxRounds
    /\ sessionFiles' = AppendToFile(sessionFiles, handlers[h].session, h, "assistant")
    /\ handlers' = [handlers EXCEPT ![h].at = IF withTools THEN "tool" ELSE "done"]
    /\ UNCHANGED <<currentSession, besideServer>>

\* the tools of a round have run: the tool_result message is appended and the
\* next round suspends on the adapter
TurnToolsEnd(h) ==
    /\ h \in 1..Len(handlers)
    /\ handlers[h].at = "tool"
    /\ sessionFiles' = AppendToFile(sessionFiles, handlers[h].session, h, "tool_result")
    /\ handlers' = [handlers EXCEPT ![h].at = "adapter", ![h].rounds = @ + 1]
    /\ UNCHANGED <<currentSession, besideServer>>

\* the adapter throws: the handler's catch sends an error event
TurnAdapterThrows(h) ==
    /\ h \in 1..Len(handlers)
    /\ handlers[h].at = "adapter"
    /\ handlers' = [handlers EXCEPT ![h].at = "failed"]
    /\ UNCHANGED <<currentSession, sessionFiles, besideServer>>

InitServer ==
    /\ LoopIdle
    /\ AdapterIdle
    /\ HostIdle
    /\ config = DefaultConfig
    /\ input = <<>>
    /\ limitedResult = <<>>
    /\ output = <<>>
    /\ phase = "unused"

NextServer ==
    \/ SessionCreate
    \/ \E sessionId \in 1..MaxSessions : ChatHistory(sessionId)
    \/ \E sessionId \in 0..MaxSessions : ChatSend(sessionId)
    \/ \E h \in 1..MaxSends, withTools \in BOOLEAN : TurnAdapterEnds(h, withTools)
    \/ \E h \in 1..MaxSends : TurnToolsEnd(h)
    \/ \E h \in 1..MaxSends : TurnAdapterThrows(h)

SpecServer == InitServer /\ [][NextServer]_vars

(***************************************************************************)
(* The session store: createSession, appendMessage and loadSession on the  *)
(* text of one JSONL file.  JSON.stringify and JSON.parse work on the      *)
(* characters of the text; JSON.parse reads the compact documents that     *)
(* JSON.stringify writes for journal entries and fails on any other text.  *)
(* The input of a tool_use block is the JSON text of its object.           *)
(***************************************************************************)
MaxEntries == 3     \* most lines written to the file after its header
MaxOverwritten == 1 \* most messages appended before createSession runs again

Quote == "\""
Backslash == "\\"

\* the character of a text at a 1-based position, "" beyond its end
Ch(text, i) == IF i >= 1 /\ i <= Len(text) THEN SubSeq(text, i, i) ELSE ""

IsSpace(c) == c \in {" ", "\n", "\r", "\t"}

\* String.prototype.trim
RECURSIVE TrimStart(_)
TrimStart(text) ==
    IF text # "" /\ IsSpace(Ch(text, 1)) THEN TrimStart(SubSeq(text, 2, Len(text))) ELSE text
RECURSIVE TrimEnd(_)
TrimEnd(text) ==
    IF text # "" /\ IsSpace(Ch(text, Len(text)))
    THEN TrimEnd(SubSeq(text, 1, Len(text) - 1))
    ELSE text
Trim(text) == TrimEnd(TrimStart(text))

\* the position of the first line feed at or after position i, 0 if none
NextBreak(text, i) ==
    CHOOSE first \in
        {IF breaks = {} THEN 0 ELSE CHOOSE b \in breaks : \A c \in breaks : b <= c :
            breaks \in {{k \in i..Len(text) : Ch(text, k) = "\n"}}} :
        TRUE

\* text.split(/\r?\n/): the lines of the text from position i on
RECURSIVE SplitFrom(_, _)
SplitFrom(text, i) ==
    CHOOSE lines \in
        {IF k = 0 THEN <<SubSeq(text, i, Len(text))>>
         ELSE <<SubSeq(text, i, IF k > i /\ Ch(text, k - 1) = "\r" THEN k - 2 ELSE k - 1)>>
                  \o SplitFrom(text, k + 1) :
            k \in {NextBreak(text, i)}} :
        TRUE
SplitLines(text) == SplitFrom(text, 1)

\* a string written without escapes
RECURSIVE EscapeNothing(_, _)
EscapeNothing(text, i) ==
    IF i > Len(text) THEN "" ELSE Ch(text, i) \o EscapeNothing(text, i + 1)

\* JSON.stringify of a string, without the quotes around it
RECURSIVE Escape(_, _)
Escape(text, i) ==
    IF i > Len(text) THEN ""
    ELSE LET c == Ch(text, i)
         IN (IF c = Quote THEN Backslash \o Quote
             ELSE IF c = Backslash THEN Backslash \o Backslash
             ELSE IF c = "\n" THEN Backslash \o "n"
             ELSE IF c = "\r" THEN Backslash \o "r"
             ELSE IF c = "\t" THEN Backslash \o "t"
             ELSE c) \o Escape(text, i + 1)

StringifyString(text) == Quote \o Escape(text, 1) \o Quote

\* JSON.stringify of a content block: its keys in the order they were set
StringifyBlock(b) ==
    IF b.type = "text"
    THEN "{\"type\":\"text\",\"text\":" \o StringifyString(b.text) \o "}"
    ELSE IF b.type = "tool_use"
    THEN "{\"type\":\"tool_use\",\"id\":" \o StringifyString(b.id)
             \o ",\"name\":" \o StringifyString(b.name)
             \o ",\"input\":" \o b.input \o "}"
    ELSE "{\"type\":\"tool_result\",\"tool_use_id\":" \o StringifyString(b.tool_use_id)
             \o ",\"content\":" \o StringifyString(b.content) \o "}"

RECURSIVE StringifyBlocks(_)
StringifyBlocks(blocks) ==
    IF blocks = <<>> THEN ""
    ELSE StringifyBlock(Head(blocks))
             \o (IF Len(blocks) > 1 THEN "," ELSE "") \o StringifyBlocks(Tail(blocks))

\* JSON.stringify of the MessageEntry of a message, written at time `now`
StringifyEntry(m, now) ==
    "{\"type\":\"message\",\"role\":" \o StringifyString(m.role)
        \o ",\"content\":"
        \o (IF m.isString THEN StringifyString(m.text)
            ELSE "[" \o StringifyBlocks(m.blocks) \o "]")
        \o ",\"timestamp\":" \o ToString(now) \o "}"

\* JSON.stringify of the SessionEntry of createSession
StringifyHeader(id, now) ==
    "{\"type\":\"session\",\"id\":" \o StringifyString(id)
        \o ",\"createdAt\":" \o ToString(now) \o "}"

\* JSON.parse reads a document from left to right; `next` is the position it
\* has reached, 0 once the text is not the document expected (a SyntaxError)
NoParse == [next |-> 0, value |-> ""]

\* the position after a literal that stands at position i
After(text, i, literal) ==
    IF i >= 1 /\ SubSeq(text, i, Min(Len(text), i + Len(literal) - 1)) = literal
    THEN i + Len(literal)
    ELSE 0

\* the rest of a JSON string whose opening quote has been read
RECURSIVE ReadString(_, _, _)
ReadString(text, i, acc) ==
    LET c == Ch(text, i)
        e == Ch(text, i + 1)
    IN IF c = "" \/ c \in {"\n", "\r", "\t"} THEN NoParse
       ELSE IF c = Quote THEN [next |-> i + 1, value |-> acc]
       ELSE IF c = Backslash
            THEN IF e = Quote THEN ReadString(text, i + 2, acc \o Quote)
                 ELSE IF e = Backslash THEN ReadString(text, i + 2, acc \o Backslash)
                 ELSE IF e = "n" THEN ReadString(text, i + 2, acc \o "\n")
                 ELSE IF e = "r" THEN ReadString(text, i + 2, acc \o "\r")
                 ELSE IF e = "t" THEN ReadString(text, i + 2, acc \o "\t")
                 ELSE NoParse
       ELSE ReadString(text, i + 1, acc \o c)

\* a JSON string at position i
ParseString(text, i) ==
    IF After(text, i, Quote) = 0 THEN NoParse ELSE ReadString(text, i + 1, "")

\* a JSON number at position i: digits
RECURSIVE ReadDigits(_, _)
ReadDigits(text, i) ==
    IF Ch(text, i) \in {"0", "1", "2", "3", "4", "5", "6", "7", "8", "9"}
    THEN ReadDigits(text, i + 1)
    ELSE i
ParseNumber(text, i) ==
    CHOOSE r \in {IF i >= 1 /\ end > i THEN [next |-> end, value |-> SubSeq(text, i, end - 1)]
                  ELSE NoParse :
                     end \in {ReadDigits(text, i)}} :
        TRUE

\* the end of a JSON object whose opening brace has been read
RECURSIVE ReadObject(_, _, _, _)
ReadObject(text, i, depth, inString) ==
    LET c == Ch(text, i)
    IN IF c = "" THEN 0
       ELSE IF inString
            THEN IF c = Backslash THEN ReadObject(text, i + 2, depth, TRUE)
                 ELSE ReadObject(text, i + 1, depth, c # Quote)
       ELSE IF c = Quote THEN ReadObject(text, i + 1, depth, TRUE)
       ELSE IF c = "{" THEN ReadObject(text, i + 1, depth + 1, FALSE)
       ELSE IF c = "}"
            THEN IF depth = 1 THEN i + 1 ELSE ReadObject(text, i + 1, depth - 1, FALSE)
       ELSE ReadObject(text, i + 1, depth, FALSE)

\* a JSON object at position i, kept as its text
ParseObject(text, i) ==
    CHOOSE r \in {IF end = 0 THEN NoParse ELSE [next |-> end, value |-> SubSeq(text, i, end - 1)] :
                     end \in {IF After(text, i, "{") = 0 THEN 0
                              ELSE ReadObject(text, i + 1, 1, FALSE)}} :
        TRUE

\* what is expected next in a document: a literal, a string, a number, an
\* object or the end of the text
Literal(t) == [kind |-> "literal", text |-> t]
String == [kind |-> "string", text |-> ""]
Number == [kind |-> "number", text |-> ""]
Object == [kind |-> "object", text |-> ""]
End == [kind |-> "end", text |-> ""]

\* the reader at position i, no value read
ReaderAt(i) == [next |-> i, values |-> <<>>]

\* the reader after one expected item
ReadItem(text, item, reader) ==
    IF item.kind = "literal"
    THEN [reader EXCEPT !.next = After(text, reader.next, item.text)]
    ELSE IF item.kind = "end"
    THEN [reader EXCEPT !.next = IF reader.next = Len(text) + 1 THEN reader.next ELSE 0]
    ELSE CHOOSE after \in
             {[next |-> r.next,
               values |-> IF r.next = 0 THEN reader.values ELSE Append(reader.values, r.value)] :
                 r \in {IF item.kind = "string" THEN ParseString(text, reader.next)
                        ELSE IF item.kind = "number" THEN ParseNumber(text, reader.next)
                        ELSE ParseObject(text, reader.next)}} :
             TRUE

\* the reader after a sequence of expected items
RECURSIVE ReadItems(_, _, _)
ReadItems(text, items, reader) ==
    IF items = <<>> \/ reader.next = 0 THEN reader
    ELSE CHOOSE after \in
             {ReadItems(text, Tail(items), r) : r \in {ReadItem(text, Head(items), reader)}} :
             TRUE

\* a content block whose type has been read
BlockOfType(text, head) ==
    IF head.next = 0 THEN NoParse
    ELSE IF head.values[1] = "text"
    THEN CHOOSE b \in
             {IF r.next = 0 THEN NoParse
              ELSE [next |-> r.next, value |-> TextBlock(r.values[2])] :
                 r \in {ReadItems(text, <<Literal(",\"text\":"), String, Literal("}")>>, head)}} :
             TRUE
    ELSE IF head.values[1] = "tool_use"
    THEN CHOOSE b \in
             {IF r.next = 0 THEN NoParse
              ELSE [next |-> r.next,
                    value |-> ToolUseBlock(r.values[2], r.values[3], r.values[4])] :
                 r \in {ReadItems(text, <<Literal(",\"id\":"), String, Literal(",\"name\":"),
                                         String, Literal(",\"input\":"), Object,
                                         Literal("}")>>, head)}} :
             TRUE
    ELSE IF head.values[1] = "tool_result"
    THEN CHOOSE b \in
             {IF r.next = 0 THEN NoParse
              ELSE [next |-> r.next, value |-> ToolResultBlock(r.values[2], r.values[3])] :
                 r \in {ReadItems(text, <<Literal(",\"tool_use_id\":"), String,
                                         Literal(",\"content\":"), String,
                                         Literal("}")>>, head)}} :
             TRUE
    ELSE NoParse

\* a content block at position i
ParseBlock(text, i) ==
    CHOOSE b \in
        {BlockOfType(text, head) :
            head \in {ReadItems(text, <<Literal("{\"type\":"), String>>, ReaderAt(i))}} :
        TRUE

\* the rest of an array of content blocks, a block expected at position i
RECURSIVE ReadBlocks(_, _, _)
ReadBlocks(text, i, acc) ==
    CHOOSE bs \in
        {IF b.next = 0 THEN NoParse
         ELSE IF After(text, b.next, ",") # 0
              THEN ReadBlocks(text, b.next + 1, Append(acc, b.value))
         ELSE IF After(text, b.next, "]") # 0
              THEN [next |-> b.next + 1, value |-> Append(acc, b.value)]
         ELSE NoParse :
            b \in {ParseBlock(text, i)}} :
        TRUE

\* the content of a message at position i: a string or an array of blocks
ParseContent(text, i) ==
    IF After(text, i, Quote) # 0
    THEN CHOOSE c \in
             {IF t.next = 0 THEN NoParse
              ELSE [next |-> t.next,
                    value |-> [isString |-> TRUE, text |-> t.value, blocks |-> <<>>]] :
                 t \in {ParseString(text, i)}} :
             TRUE
    ELSE IF After(text, i, "[]") # 0
    THEN [next |-> i + 2, value |-> [isString |-> FALSE, text |-> "", blocks |-> <<>>]]
    ELSE IF After(text, i, "[") # 0
    THEN CHOOSE c \in
             {IF bs.next = 0 THEN NoParse
              ELSE [next |-> bs.next,
                    value |-> [isString |-> FALSE, text |-> "", blocks |-> bs.value]] :
                 bs \in {ReadBlocks(text, i + 1, <<>>)}} :
             TRUE
    ELSE NoParse

\* JSON.parse(line) as JournalEntry: the type of the entry and, for a message
\* entry, its role and content
NoEntry == [ok |-> FALSE, type |-> "", role |-> "", isString |-> TRUE, text |-> "",
            blocks |-> <<>>]

\* a message entry whose type and role have been read
MessageEntryFrom(text, head) ==
    CHOOSE e \in
        {IF content.next = 0 THEN NoEntry
         ELSE CHOOSE m \in
                  {IF tail.next = 0 THEN NoEntry
                   ELSE [ok |-> TRUE, type |-> "message", role |-> head.values[2],
                         isString |-> content.value.isString,
                         text |-> content.value.text, blocks |-> content.value.blocks] :
                      tail \in {ReadItems(text, <<Literal(",\"timestamp\":"), Number,
                                                 Literal("}"), End>>,
                                          ReaderAt(content.next))}} :
                  TRUE :
            content \in {ParseContent(text, After(text, head.next, ",\"content\":"))}} :
        TRUE

\* an entry whose type has been read
EntryOfType(text, head) ==
    IF head.next = 0 THEN NoEntry
    ELSE IF head.values[1] = "session"
    THEN CHOOSE e \in
             {IF r.next = 0 THEN NoEntry ELSE [NoEntry EXCEPT !.ok = TRUE, !.type = "session"] :
                 r \in {ReadItems(text, <<Literal(",\"id\":"), String,
                                         Literal(",\"createdAt\":"), Number,
                                         Literal("}"), End>>, head)}} :
             TRUE
    ELSE IF head.values[1] = "message"
    THEN CHOOSE e \in
             {IF r.next = 0 THEN NoEntry ELSE MessageEntryFrom(text, r) :
                 r \in {ReadItems(text, <<Literal(",\"role\":"), String>>, head)}} :
             TRUE
    ELSE NoEntry

ParseEntry(line) ==
    CHOOSE e \in
        {CHOOSE entry \in
             {EntryOfType(text, head) :
                 head \in {ReadItems(text, <<Literal("{\"type\":"), String>>, ReaderAt(1))}} :
             TRUE :
            text \in {Trim(line)}} :
        TRUE

\* a loadSession whose JSON.parse is not inside a try
FailOnCorrupt(state) == [state EXCEPT !.threw = TRUE]

\* catch { /* Skip corrupt lines */ }
SkipCorrupt(state) == state

\* loadSession: the body of `for (const line of lines)` for one line
ReadLine(line, state) ==
    IF Trim(line) = "" THEN state
    ELSE CHOOSE after \in
             {IF ~ entry.ok THEN SkipCorrupt(state)
              ELSE IF entry.type = "message"
              THEN [state EXCEPT !.messages =
                       Append(@, [role |-> entry.role, isString |-> entry.isString,
                                  text |-> entry.text, blocks |-> entry.blocks])]
              ELSE state :
                 entry \in {ParseEntry(line)}} :
             TRUE

\* loadSession: `for (const line of lines)`
RECURSIVE ReadLines(_, _)
ReadLines(lines, state) ==
    IF lines = <<>> \/ state.threw THEN state
    ELSE CHOOSE after \in
             {ReadLines(Tail(lines), s) : s \in {ReadLine(Head(lines), state)}} :
             TRUE

\* loadSession on the text of an existing file
LoadSession(text) ==
    CHOOSE session \in
        {ReadLines(lines, [threw |-> FALSE, messages |-> <<>>]) :
            lines \in {SplitLines(Trim(text))}} :
        TRUE

\* messages appended to the session of the store
StoreMessages ==
    { StringMessage("user", "Good line"),
      StringMessage("assistant", "say \"hi\" \\ twice\nthen\r\nstop\t"),
      StringMessage("user", ""),
      BlockMessage("assistant", <<>>),
      BlockMessage("assistant",
          <<TextBlock("4"), ToolUseBlock("tu_1", "bash", "{\"command\":\"ls }\"}")>>),
      BlockMessage("user",
          <<ToolResultBlock("tu_1", "file1.txt\nfile2.txt"),
            ToolResultBlock("tu_2", "{\"type\":\"message\"}")>>) }

\* lines that are not JSON, written to the file by something else
CorruptLines ==
    { "{ this is not valid json }",
      "{\"type\":\"message\",\"role\":\"user\",\"content\":\"Good li",
      "{\"type\":\"message\",\"role\":\"user\",\"content\":\"x\",\"timestamp\":1}}",
      "   ",
      "" }

\* Date.now() when the file has n lines
Now(n) == 17 + n

\* createSession(): the file holds the header line
CreateSession ==
    /\ storePc = "none"
    /\ raw' = StringifyHeader("s1", Now(0)) \o "\n"
    /\ sessionMessages' = <<>>
    /\ written' = <<>>
    /\ loadedMessages' = <<>>
    /\ storePc' = "created"
    /\ UNCHANGED <<appended, besideStore>>

\* appendMessage(session, m)
AppendMessageCall(m) ==
    /\ storePc \in {"created", "loaded"}
    /\ Len(written) < MaxEntries
    /\ Len(appended) < MaxEntries
    /\ appended' = Append(appended, m)
    /\ sessionMessages' = AppendMessage(sessionMessages, m)
    /\ raw' = raw \o StringifyEntry(m, Now(Len(written) + 1)) \o "\n"
    /\ written' = Append(written, [wellFormed |-> TRUE, message |-> m])
    /\ loadedMessages' = <<>>
    /\ storePc' = "created"
    /\ UNCHANGED besideStore

\* appendFileSync(session.filePath, line + "\n") with a line that is not JSON
CorruptWrite(line) ==
    /\ storePc \in {"created", "loaded"}
    /\ Len(written) < MaxEntries
    /\ raw' = raw \o line \o "\n"
    /\ written' = Append(written, [wellFormed |-> FALSE, message |-> StringMessage("", line)])
    /\ loadedMessages' = <<>>
    /\ storePc' = "created"
    /\ UNCHANGED <<sessionMessages, appended, besideStore>>

\* loadSession(session.id)
LoadSessionCall ==
    /\ storePc = "created"
    /\ LET loaded == LoadSession(raw)
       IN /\ storePc' = IF loaded.threw THEN "threw" ELSE "loaded"
          /\ loadedMessages' = loaded.messages
    /\ UNCHANGED <<raw, sessionMessages, written, appended, besideStore>>

InitStore ==
    /\ LoopIdle
    /\ AdapterIdle
    /\ HostIdle
    /\ config = DefaultConfig
    /\ input = <<>>
    /\ limitedResult = <<>>
    /\ output = <<>>
    /\ phase = "unused"

NextStore ==
    \/ CreateSession
    \/ \E m \in StoreMessages : AppendMessageCall(m)
    \/ \E line \in CorruptLines : CorruptWrite(line)
    \/ LoadSessionCall

SpecStore == InitStore /\ [][NextStore]_vars

\* createSession("s1") when the session file exists: writeFileSync replaces it
CreateSessionAgain ==
    /\ storePc # "none"
    /\ Len(appended) <= MaxOverwritten
    /\ raw' = StringifyHeader("s1", Now(0)) \o "\n"
    /\ sessionMessages' = <<>>
    /\ written' = <<>>
    /\ loadedMessages' = <<>>
    /\ storePc' = "created"
    /\ UNCHANGED <<appended, besideStore>>

NextSessions ==
    \/ CreateSession
    \/ CreateSessionAgain
    \/ \E m \in StoreMessages : AppendMessageCall(m)
    \/ \E line \in CorruptLines : CorruptWrite(line)
    \/ LoadSessionCall

\* the session module with session ids that are used again
SpecSessions == InitStore /\ [][NextSessions]_vars

(***************************************************************************)
(* Delegation: the spawn_agent tool and spawnSubAgent.  A tool catalog is  *)
(* the set of the names of its tools; the model may ask for any tool name, *)
(* in the catalog or not.  A round has at most one tool call.              *)
(***************************************************************************)
MaxResponses == 5   \* most text and tool_use events of all adapters together

MAX_DEPTH == 3

\* the depth spawnSubAgent is called with: its default, the tool passes none
DefaultDepth == 1

ToolNames == {"echo", "spawn_agent"}

\* the catalog of the main agent: the built-in tools and the spawn_agent tool
MainCatalog == {"echo", "spawn_agent"}

\* the tool lists createSubAgentTool is given: the built-in tools, as main
\* does, or a list that holds a spawn_agent tool
SpawnToolLists == {{"echo"}, {"echo", "spawn_agent"}}

\* sub-agent tools with nothing excluded
SubToolsUnfiltered(tools) == tools

\* tools.filter((t) => t.definition.name !== "spawn_agent")
SubTools(tools) == tools \ {"spawn_agent"}

\* result = event.text
CollectLast(result, text) == text

\* result += event.text
CollectText(result, text) == result \o text

\* an agent loop that has appended its user message and suspends on the adapter
AgentLoop(catalog, session) ==
    [catalog |-> catalog, session |-> session, at |-> "adapter", result |-> "",
     texts |-> <<>>]

AgentMessage(role, content) == [role |-> role, content |-> content]

\* the agent loop on top of the stack: the one that is not waiting for a tool
Top == stack[Len(stack)]

\* appendMessage on the session with an id
AppendTo(sessions, id, role, content) ==
    [sessions EXCEPT ![id] = Append(@, AgentMessage(role, content))]

\* the caller starts the turn of the main agent
MainTurnStart(tools) ==
    /\ stack = <<>>
    /\ agentSessions = <<>>
    /\ spawnTools' = tools
    /\ agentSessions' = <<<<AgentMessage("user", "Turn")>>>>
    /\ stack' = <<AgentLoop(MainCatalog, 1)>>
    /\ UNCHANGED <<lastReturn, responses, besideSubagent>>

\* the adapter of the running agent sends a text event; spawnSubAgent collects it
AgentText(t) ==
    /\ stack # <<>>
    /\ Top.at = "adapter"
    /\ responses < MaxResponses
    /\ responses' = responses + 1
    /\ stack' = [stack EXCEPT ![Len(stack)].texts = Append(@, t),
                              ![Len(stack)].result = CollectText(@, t)]
    /\ UNCHANGED <<agentSessions, spawnTools, lastReturn, besideSubagent>>

\* the round of the running agent ends with a tool_use for a tool name: the
\* assistant message is appended and executeTool looks the name up
AgentToolUse(name) ==
    /\ stack # <<>>
    /\ Top.at = "adapter"
    /\ responses < MaxResponses
    /\ responses' = responses + 1
    /\ LET asked == AppendTo(agentSessions, Top.session, "assistant", "tool_use " \o name)
           depth == DefaultDepth
       IN IF name \notin Top.catalog
          THEN /\ agentSessions' = AppendTo(asked, Top.session, "user",
                                            "Error: Unknown tool \"" \o name \o "\"")
               /\ UNCHANGED stack
          ELSE IF name = "spawn_agent"
          THEN IF depth > MAX_DEPTH
               THEN /\ agentSessions' = AppendTo(asked, Top.session, "user",
                                                 "Error: Maximum sub-agent nesting depth ("
                                                    \o ToString(MAX_DEPTH) \o ") reached.")
                    /\ UNCHANGED stack
               ELSE /\ agentSessions' = Append(asked, <<AgentMessage("user", "Task")>>)
                    /\ stack' = Append([stack EXCEPT ![Len(stack)].at = "tool"],
                                       AgentLoop(SubTools(spawnTools), Len(agentSessions) + 1))
          ELSE /\ agentSessions' = AppendTo(asked, Top.session, "user", "ok")
               /\ UNCHANGED stack
    /\ UNCHANGED <<spawnTools, lastReturn, besideSubagent>>

\* the round of the running agent ends without a tool_use: its turn is over;
\* the result of a sub-agent is the result of its parent's tool call
AgentTurnEnds ==
    /\ stack # <<>>
    /\ Top.at = "adapter"
    /\ LET ended == AppendTo(agentSessions, Top.session, "assistant", Top.result)
           parent == Len(stack) - 1
       IN IF parent = 0
          THEN /\ agentSessions' = ended
               /\ stack' = <<>>
               /\ UNCHANGED lastReturn
          ELSE /\ agentSessions' = AppendTo(ended, stack[parent].session, "user", Top.result)
               /\ stack' = [SubSeq(stack, 1, parent) EXCEPT ![parent].at = "adapter"]
               /\ lastReturn' = [returned |-> TRUE, result |-> Top.result, texts |-> Top.texts]
    /\ UNCHANGED <<spawnTools, responses, besideSubagent>>

InitSubagent ==
    /\ LoopIdle
    /\ AdapterIdle
    /\ HostIdle
    /\ config = DefaultConfig
    /\ input = <<>>
    /\ limitedResult = <<>>
    /\ output = <<>>
    /\ phase = "unused"

NextSubagent ==
    \/ \E tools \in SpawnToolLists : MainTurnStart(tools)
    \/ \E t \in {"a", "b"} : AgentText(t)
    \/ \E name \in ToolNames : AgentToolUse(name)
    \/ AgentTurnEnds

SpecSubagent == InitSubagent /\ [][NextSubagent]_vars

(***************************************************************************)
(* One round of agentTurn, event by event: the for await loop over the     *)
(* adapter's stream receives text, tool_use and message_stop events in any *)
(* order and number, and the assistant message is built when the stream    *)
(* ends.                                                                   *)
(***************************************************************************)
MaxStream == 3      \* most events in the stream of the round

\* the tool_use fields of an event that is not a tool_use
NoToolUseEvent == [id |-> "", name |-> "", input |-> ""]

TextStreamEvent(t) == [type |-> "text", text |-> t, tu |-> NoToolUseEvent, stop_reason |-> ""]
ToolUseStreamEvent(tu) == [type |-> "tool_use", text |-> "", tu |-> tu, stop_reason |-> ""]
StopStreamEvent(r) ==
    [type |-> "message_stop", text |-> "", tu |-> NoToolUseEvent, stop_reason |-> r]

RoundEvents ==
    {TextStreamEvent(t) : t \in {"Hi", " there", ""}}
        \cup {ToolUseStreamEvent(tu) : tu \in ToolCalls}
        \cup {StopStreamEvent("tool_use")}

RoundStreams == UNION {[1..n -> RoundEvents] : n \in 0..MaxStream}

\* agentTurn up to client.stream: the user message is appended and the stream
\* of the first round is asked for
RoundStart(text, s) ==
    /\ pc = "idle"
    /\ messages' = AppendMessage(messages, StringMessage("user", text))
    /\ journal' = AppendEntry(journal, StringMessage("user", text))
    /\ userMessage' = text
    /\ rounds' = 1
    /\ contextMessages' = PrepareContext(messages', config)
    /\ stream' = s
    /\ streamPos' = 0
    /\ pc' = "collecting"
    /\ UNCHANGED <<config, adapterPhase, currentText, toolUses, stopReason, toolIndex,
                   toolResults, pendingResult, events, turnStart, deltas, execOutcome,
                   besideRound>>

\* the for await loop receives the next event of the stream
RoundEvent ==
    /\ pc = "collecting"
    /\ streamPos < Len(stream)
    /\ streamPos' = streamPos + 1
    /\ LET event == stream[streamPos + 1]
       IN CASE event.type = "text" ->
                 /\ currentText' = currentText \o event.text
                 /\ events' = Append(events, TextEvent(event.text))
                 /\ pc' = "yield_text"
                 /\ UNCHANGED <<toolUses, stopReason>>
            [] event.type = "tool_use" ->
                 /\ toolUses' = Append(toolUses, event.tu)
                 /\ UNCHANGED <<currentText, events, pc, stopReason>>
            [] OTHER ->
                 /\ stopReason' = event.stop_reason
                 /\ UNCHANGED <<currentText, events, pc, toolUses>>
    /\ UNCHANGED <<messages, journal, config, contextMessages, adapterPhase, toolIndex,
                   toolResults, pendingResult, turnStart, rounds, userMessage, deltas,
                   execOutcome, stream, besideRound>>

\* the consumer asks for the next event after a text delta
RoundResume ==
    /\ pc = "yield_text"
    /\ pc' = "collecting"
    /\ UNCHANGED <<messages, journal, config, contextMessages, adapterPhase, currentText,
                   toolUses, stopReason, toolIndex, toolResults, pendingResult, events,
                   turnStart, rounds, userMessage, deltas, execOutcome, roundVars,
                   besideRound>>

\* the stream has ended: the assistant message is built and appended
RoundAppend ==
    /\ pc = "collecting"
    /\ streamPos = Len(stream)
    /\ messages' = AppendMessage(messages, AssistantMessage(currentText, toolUses))
    /\ journal' = AppendEntry(journal, AssistantMessage(currentText, toolUses))
    /\ pc' = "appended"
    /\ UNCHANGED <<config, contextMessages, adapterPhase, currentText, toolUses, stopReason,
                   toolIndex, toolResults, pendingResult, events, turnStart, rounds,
                   userMessage, deltas, execOutcome, roundVars, besideRound>>

NextRound ==
    \/ \E text \in Texts, s \in RoundStreams : RoundStart(text, s)
    \/ RoundEvent
    \/ RoundResume
    \/ RoundAppend

SpecRound == Init /\ [][NextRound]_vars

(***************************************************************************)
(* The heartbeat: Heartbeat.start, Heartbeat.stop and the callback of the  *)
(* interval timer.  An interval timer ticks until clearInterval is called  *)
(* with its handle.                                                        *)
(***************************************************************************)
MaxStarts == 2      \* most interval timers installed
MaxTicks == 1       \* most ticks that invoke agent.turn

\* Number(s) for a text of decimal digits
RECURSIVE NumberOf(_)
NumberOf(digits) ==
    IF digits = "" THEN 0
    ELSE 10 * NumberOf(SubSeq(digits, 1, Len(digits) - 1))
             + (CHOOSE d \in 0..9 : ToString(d) = SubSeq(digits, Len(digits), Len(digits)))

\* "HH:MM".split(":").map(Number) as minutes of the day
MinutesOf(hhmm) ==
    LET colon == CHOOSE i \in 1..Len(hhmm) : SubSeq(hhmm, i, i) = ":"
    IN NumberOf(SubSeq(hhmm, 1, colon - 1)) * 60 + NumberOf(SubSeq(hhmm, colon + 1, Len(hhmm)))

\* isWithinActiveHours with the end of the window left out
IsWithinActiveHoursEndExcluded(activeHours, hours, minutes) ==
    LET currentMinutes == hours * 60 + minutes
        startMinutes == MinutesOf(activeHours.start)
        endMinutes == MinutesOf(activeHours.end)
    IN IF startMinutes <= endMinutes
       THEN currentMinutes >= startMinutes /\ currentMinutes < endMinutes
       ELSE currentMinutes >= startMinutes \/ currentMinutes < endMinutes

\* isWithinActiveHours at the time new Date() gives
IsWithinActiveHours(activeHours, hours, minutes) ==
    LET currentMinutes == hours * 60 + minutes
        startMinutes == MinutesOf(activeHours.start)
        endMinutes == MinutesOf(activeHours.end)
    IN IF startMinutes <= endMinutes
       THEN currentMinutes >= startMinutes /\ currentMinutes <= endMinutes
       ELSE currentMinutes >= startMinutes \/ currentMinutes <= endMinutes

\* text.includes(part)
Includes(text, part) ==
    \E i \in 1..(Len(text) - Len(part) + 1) : SubSeq(text, i, i + Len(part) - 1) = part

\* the tick goes on to agent.turn
TickInvokes(activeHours, hours, minutes, exists, content) ==
    /\ activeHours = NoActiveHours \/ IsWithinActiveHours(activeHours, hours, minutes)
    /\ exists
    /\ Trim(content) # ""

\* response.includes("HEARTBEAT_OK") && response.length < 300
Suppressed(response) == Includes(response, "HEARTBEAT_OK") /\ Len(response) < 300

HeartbeatConfigs ==
    [enabled : BOOLEAN,
     activeHours : {NoActiveHours, [start |-> "22:00", end |-> "06:00"],
                    [start |-> "09:00", end |-> "17:30"]}]

\* times of the day new Date() gives: <<hours, minutes>>
Times == {<<0, 0>>, <<6, 0>>, <<6, 1>>, <<8, 59>>, <<9, 0>>, <<17, 30>>, <<17, 31>>,
          <<21, 59>>, <<22, 0>>, <<23, 59>>}

\* HEARTBEAT.md: whether it exists and what it holds
ChecklistFiles ==
    { [exists |-> FALSE, content |-> ""],
      [exists |-> TRUE, content |-> ""],
      [exists |-> TRUE, content |-> " \n\t\n"],
      [exists |-> TRUE, content |-> "- [ ] Check\n"] }

Responses ==
    { "done",
      "HEARTBEAT_OK",
      Repeat("x", 287) \o "HEARTBEAT_OK",
      Repeat("x", 288) \o "HEARTBEAT_OK",
      Repeat("x", 300) }

\* heartbeat.start(config, agent, broadcast)
HeartbeatStart(cfg) ==
    /\ Len(timers) < MaxStarts
    /\ stopReturned' = FALSE
    /\ IF ~ cfg.enabled
       THEN UNCHANGED <<timer, timers>>
       ELSE /\ timers' = Append(timers, [activeHours |-> cfg.activeHours, cleared |-> FALSE])
            /\ timer' = Len(timers) + 1
    /\ UNCHANGED <<lastTick, turnCalls, pendingTurns, lastDelivery, besideHeartbeat>>

\* heartbeat.stop()
HeartbeatStop ==
    /\ IF timer # 0
       THEN /\ timers' = [timers EXCEPT ![timer].cleared = TRUE]
            /\ timer' = 0
       ELSE UNCHANGED <<timer, timers>>
    /\ stopReturned' = TRUE
    /\ UNCHANGED <<lastTick, turnCalls, pendingTurns, lastDelivery, besideHeartbeat>>

\* an interval timer ticks: the callback runs up to its await of agent.turn
Tick(t, time, file) ==
    /\ t \in 1..Len(timers)
    /\ ~ timers[t].cleared
    /\ Len(turnCalls) < MaxTicks
    /\ LET invoked == TickInvokes(timers[t].activeHours, time[1], time[2],
                                  file.exists, file.content)
       IN /\ lastTick' = [ticked |-> TRUE, activeHours |-> timers[t].activeHours,
                          hours |-> time[1], minutes |-> time[2], exists |-> file.exists,
                          content |-> file.content, invoked |-> invoked]
          /\ turnCalls' = IF invoked THEN Append(turnCalls, t) ELSE turnCalls
          /\ pendingTurns' = IF invoked THEN Append(pendingTurns, t) ELSE pendingTurns
    /\ UNCHANGED <<timer, timers, stopReturned, lastDelivery, besideHeartbeat>>

\* agent.turn resolves with a response: the callback broadcasts it or not
TurnResolves(response) ==
    /\ pendingTurns # <<>>
    /\ pendingTurns' = Tail(pendingTurns)
    /\ lastDelivery' = [resolved |-> TRUE, response |-> response,
                        broadcast |-> ~ Suppressed(response)]
    /\ UNCHANGED <<timer, timers, stopReturned, lastTick, turnCalls, besideHeartbeat>>

InitHeartbeat ==
    /\ LoopIdle
    /\ AdapterIdle
    /\ HostIdle
    /\ config = DefaultConfig
    /\ input = <<>>
    /\ limitedResult = <<>>
    /\ output = <<>>
    /\ phase = "unused"

NextHeartbeat ==
    \/ \E cfg \in HeartbeatConfigs : HeartbeatStart(cfg)
    \/ HeartbeatStop
    \/ \E t \in 1..MaxStarts, time \in Times, file \in ChecklistFiles : Tick(t, time, file)
    \/ \E response \in Responses : TurnResolves(response)

SpecHeartbeat == InitHeartbeat /\ [][NextHeartbeat]_vars

(***************************************************************************)
(* Skills: main loads them, watches the skills directory and hands the     *)
(* tool catalog and the skills to the server; the server starts turns.     *)
(* Arrays are objects: skillArrays holds every Skill[] that loadSkills has *)
(* returned, and skills and depsSkills say which of them a variable refers *)
(* to.                                                                     *)
(***************************************************************************)
MaxReloads == 2     \* most reloads of the skills directory
MaxTurns == 2       \* most turns the server starts

\* the versions a skill file can have on disk
SkillVersions == <<1..2, 1..2>>

\* parseSkillFile for version v of file f
ParseSkillFile(f, v) ==
    IF f = 1
    THEN [name |-> "calc", description |-> "Calculator", always |-> FALSE,
          content |-> "Use the calculate tool.",
          tools |-> IF v = 1
                    THEN <<[name |-> "calculate", description |-> "Evaluate an expression."]>>
                    ELSE <<[name |-> "calculate", description |-> "Evaluate an expression."],
                           [name |-> "convert", description |-> "Convert a unit."]>>]
    ELSE [name |-> "tone", description |-> "Tone of voice", always |-> TRUE,
          content |-> IF v = 1 THEN "Be brief." ELSE "Be formal.",
          tools |-> <<>>]

\* loadSkills(skillsDir) for the directory dir, in the order of readdirSync
RECURSIVE LoadSkillsFrom(_, _)
LoadSkillsFrom(dir, f) ==
    IF f > Len(SkillFileNames) THEN <<>>
    ELSE (IF dir[f] = 0 THEN <<>> ELSE <<ParseSkillFile(f, dir[f])>>)
             \o LoadSkillsFrom(dir, f + 1)

LoadSkills(dir) == LoadSkillsFrom(dir, 1)

\* the Tool definitions of one skill
SkillToolsOf(skill) ==
    [i \in 1..Len(skill.tools) |->
        [name |-> skill.tools[i].name,
         description |-> "[Skill:" \o skill.name \o "] " \o skill.tools[i].description]]

\* skillTools(skills)
RECURSIVE SkillTools(_)
SkillTools(list) ==
    IF list = <<>> THEN <<>> ELSE SkillToolsOf(Head(list)) \o SkillTools(Tail(list))

\* builtin, MCP and memory tools and spawn_agent
StaticTools ==
    <<[name |-> "read_file", description |-> "Read a file."],
      [name |-> "spawn_agent", description |-> "Spawn a sub-agent."]>>

\* parts.join(separator)
RECURSIVE Join(_, _)
Join(parts, separator) ==
    IF parts = <<>> THEN ""
    ELSE IF Len(parts) = 1 THEN parts[1]
    ELSE parts[1] \o separator \o Join(Tail(parts), separator)

\* list.filter(keep) for a set of indexes to keep
RECURSIVE Filter(_, _)
Filter(list, keep) ==
    IF list = <<>> THEN <<>>
    ELSE (IF keep[Head(list)] THEN <<Head(list)>> ELSE <<>>) \o Filter(Tail(list), keep)

\* buildSystemPrompt(config, skills, memoryContext) with no config.systemPrompt
BuildSystemPrompt(list, memoryContext) ==
    LET alwaysOn == Filter(list, [s \in {list[i] : i \in 1..Len(list)} |-> s.always])
        availableSkills == Filter(list, [s \in {list[i] : i \in 1..Len(list)} |-> ~ s.always])
    IN Join(<<"You are SlimClaw, a personal AI assistant.">>
              \o [i \in 1..Len(alwaysOn) |->
                     "## Skill: " \o alwaysOn[i].name \o "\n" \o alwaysOn[i].content]
              \o (IF availableSkills # <<>>
                  THEN <<"## Available Skills\n"
                           \o Join([i \in 1..Len(availableSkills) |->
                                       "- " \o availableSkills[i].name \o ": "
                                            \o availableSkills[i].description], "\n")>>
                  ELSE <<>>)
              \o (IF memoryContext # "" THEN <<"## Relevant Memories\n" \o memoryContext>>
                  ELSE <<>>),
            "\n\n")

SkillDirs == {dir \in [1..Len(SkillFileNames) -> 0..2] :
                 \A f \in 1..Len(SkillFileNames) : dir[f] \in {0} \cup SkillVersions[f]}

MemoryContexts == {"", "- likes tea"}

\* main up to startServer, with dir on disk
Main(dir) ==
    /\ skills = 0
    /\ skillsDir' = dir
    /\ skillArrays' = <<LoadSkills(dir)>>
    /\ skills' = 1
    /\ allTools' = StaticTools \o SkillTools(LoadSkills(dir))
    /\ depsSkills' = 1
    /\ UNCHANGED <<debounceTimer, lastTurn, turnsStarted, besideSkills>>

\* a skill file is added, changed or removed: the watcher sets its debounce timer
SkillFileChanges(f, v) ==
    /\ skills # 0
    /\ Len(skillArrays) <= MaxReloads
    /\ v \in {0} \cup SkillVersions[f]
    /\ skillsDir[f] # v
    /\ skillsDir' = [skillsDir EXCEPT ![f] = v]
    /\ debounceTimer' = TRUE
    /\ UNCHANGED <<skillArrays, skills, depsSkills, allTools, lastTurn, turnsStarted,
                   besideSkills>>

\* the debounce timer fires: loadSkills, then main's onReload callback
Reload ==
    /\ debounceTimer
    /\ debounceTimer' = FALSE
    /\ skillArrays' = Append(skillArrays, LoadSkills(skillsDir))
    /\ skills' = Len(skillArrays) + 1
    /\ allTools' = StaticTools \o SkillTools(LoadSkills(skillsDir))
    /\ UNCHANGED <<skillsDir, depsSkills, lastTurn, turnsStarted, besideSkills>>

\* the server starts a turn for chat.send: agentTurn(..., tools, skills, memoryContext)
ServerTurn(memoryContext) ==
    /\ depsSkills # 0
    /\ turnsStarted < MaxTurns
    /\ turnsStarted' = turnsStarted + 1
    /\ lastTurn' = [tools |-> allTools,
                    systemPrompt |-> BuildSystemPrompt(skillArrays[depsSkills], memoryContext),
                    memoryContext |-> memoryContext]
    /\ UNCHANGED <<skillsDir, skillArrays, skills, depsSkills, allTools, debounceTimer,
                   besideSkills>>

InitSkills ==
    /\ LoopIdle
    /\ AdapterIdle
    /\ HostIdle
    /\ config = DefaultConfig
    /\ input = <<>>
    /\ limitedResult = <<>>
    /\ output = <<>>
    /\ phase = "unused"

NextSkills ==
    \/ \E dir \in SkillDirs : Main(dir)
    \/ \E f \in 1..Len(SkillFileNames), v \in 0..2 : SkillFileChanges(f, v)
    \/ Reload
    \/ \E memoryContext \in MemoryContexts : ServerTurn(memoryContext)

SpecSkills == InitSkills /\ [][NextSkills]_vars

(***************************************************************************)
(* MCP servers: startAllMCPServers and stopAllMCPServers, one step for     *)
(* each round of their loops.  How a start or a close ends is up to the    *)
(* server.                                                                 *)
(***************************************************************************)
MaxServers == 3     \* most servers in config.mcp.servers

ServerNames == {"s" \o ToString(n) : n \in 1..MaxServers}

\* the entries of config.mcp.servers: server names, each one once
McpConfigs ==
    UNION {{cfg \in [1..n -> ServerNames] : \A i, j \in 1..n : cfg[i] = cfg[j] => i = j} :
              n \in 0..MaxServers}

\* how startMCPServer ends: it returns the server, or createTransport,
\* client.connect or client.listTools throws
StartOutcomes == {"started", "createTransport", "connect", "listTools"}

\* convertTools for a server with one tool
ConvertTools(name) == <<"mcp_" \o name \o "_run">>

\* a failed start is rethrown to the caller of startAllMCPServers
RethrowStartError == "threw"

\* a failed start is caught and logged, and the loop goes on
CatchStartError == "starting"

\* startAllMCPServers is called
StartAllMCPServers(cfg) ==
    /\ mcpPhase = "idle"
    /\ mcpPhase' = "starting"
    /\ mcpConfig' = cfg
    /\ servers' = <<>>
    /\ startAttempts' = <<>>
    /\ UNCHANGED <<closeAttempts, besideMcp>>

\* one round of the loop of startAllMCPServers
StartMCPServer(outcome) ==
    /\ mcpPhase = "starting"
    /\ Len(startAttempts) < Len(mcpConfig)
    /\ LET name == mcpConfig[Len(startAttempts) + 1]
       IN /\ startAttempts' = Append(startAttempts, [name |-> name, outcome |-> outcome])
          /\ IF outcome = "started"
             THEN /\ servers' = Append(servers, [name |-> name, tools |-> ConvertTools(name)])
                  /\ UNCHANGED mcpPhase
             ELSE /\ mcpPhase' = CatchStartError
                  /\ UNCHANGED servers
    /\ UNCHANGED <<mcpConfig, closeAttempts, besideMcp>>

\* the loop of startAllMCPServers is over: return servers
StartAllReturns ==
    /\ mcpPhase = "starting"
    /\ Len(startAttempts) = Len(mcpConfig)
    /\ mcpPhase' = "started"
    /\ UNCHANGED <<mcpConfig, startAttempts, servers, closeAttempts, besideMcp>>

\* stopAllMCPServers(servers) is called
StopAllMCPServers ==
    /\ mcpPhase = "started"
    /\ mcpPhase' = "stopping"
    /\ closeAttempts' = <<>>
    /\ UNCHANGED <<mcpConfig, startAttempts, servers, besideMcp>>

\* one round of the loop of stopAllMCPServers: client.close resolves or throws
CloseClient(throws) ==
    /\ mcpPhase = "stopping"
    /\ Len(closeAttempts) < Len(servers)
    /\ closeAttempts' = Append(closeAttempts,
                               [name |-> servers[Len(closeAttempts) + 1].name,
                                threw |-> throws])
    /\ UNCHANGED <<mcpPhase, mcpConfig, startAttempts, servers, besideMcp>>

\* the loop of stopAllMCPServers is over
StopAllReturns ==
    /\ mcpPhase = "stopping"
    /\ Len(closeAttempts) = Len(servers)
    /\ mcpPhase' = "stopped"
    /\ UNCHANGED <<mcpConfig, startAttempts, servers, closeAttempts, besideMcp>>

InitMcp ==
    /\ LoopIdle
    /\ AdapterIdle
    /\ HostIdle
    /\ config = DefaultConfig
    /\ input = <<>>
    /\ limitedResult = <<>>
    /\ output = <<>>
    /\ phase = "unused"

NextMcp ==
    \/ \E cfg \in McpConfigs : StartAllMCPServers(cfg)
    \/ \E outcome \in StartOutcomes : StartMCPServer(outcome)
    \/ StartAllReturns
    \/ StopAllMCPServers
    \/ \E throws \in BOOLEAN : CloseClient(throws)
    \/ StopAllReturns

SpecMcp == InitMcp /\ [][NextMcp]_vars

(***************************************************************************)
(* Reading a bounded context.                                              *)
(***************************************************************************)
\* the (message, block) positions of the blocks of one type
BlocksOfType(msgs, t) ==
    {p \in (1..Len(msgs)) \X (1..(MaxTools + 1)) :
        /\ ~ msgs[p[1]].isString
        /\ p[2] <= Len(msgs[p[1]].blocks)
        /\ msgs[p[1]].blocks[p[2]].type = t}

\* every tool_result of msgs names the id of a tool_use of an assistant
\* message of msgs
ReferencesResolve(msgs) ==
    \A p \in BlocksOfType(msgs, "tool_result") :
        \E q \in BlocksOfType(msgs, "tool_use") :
            /\ msgs[q[1]].role = "assistant"
            /\ msgs[q[1]].blocks[q[2]].id = msgs[p[1]].blocks[p[2]].tool_use_id

(***************************************************************************)
(* C1: every tool_result block of a context returned by prepareContext     *)
(* carries the id of a tool_use block of an assistant message of the same  *)
(* context, also when turn-window limiting discarded its tool_use.         *)
(***************************************************************************)
C1_ReferencesResolve == phase = "prepared" => ReferencesResolve(output)

\* a call where the window cut away the tool_use of a tool_result of the
\* kept part, and the tool_result is gone from the context
C1_Witness ==
    /\ phase = "prepared"
    /\ config.maxHistoryTurns > 0
    /\ ~ ReferencesResolve(LimitHistoryTurns(input, config.maxHistoryTurns))
    /\ ReferencesResolve(input)
    /\ output # <<>>

IsPrefix(a, b) == Len(a) <= Len(b) /\ SubSeq(b, 1, Len(a)) = a

Running == pc \notin {"idle", "done", "failed", "stopped"}

\* the step in which the stream of a round has ended and agentTurn decides
RoundEnds == pc = "streaming" /\ adapterPhase = "stopped" /\ pc' # "streaming"

\* the step in which the last tool_end of a round has been taken by the consumer
DispatchEnds ==
    pc = "tool_end" /\ toolIndex = Len(toolUses) /\ pc' \notin {"tool_end", "stopped"}

\* a user-role message of n tool_result blocks
IsToolResultMessage(m, n) ==
    /\ m.role = "user"
    /\ ~ m.isString
    /\ Len(m.blocks) = n
    /\ \A j \in 1..n : m.blocks[j].type = "tool_result"

\* the messages the current turn has appended
Appended == SubSeq(messages, turnStart + 1, Len(messages))

(***************************************************************************)
(* C2 as stated: a round ends the turn if and only if its stop reason is   *)
(* end_turn and no tool call is pending, and a round whose stop reason is  *)
(* tool_use goes to tool dispatch.                                         *)
(***************************************************************************)
C2_Original ==
    [][RoundEnds =>
          /\ (pc' = "done") <=> (stopReason = "end_turn" /\ toolUses = <<>>)
          /\ stopReason = "tool_use" => pc' = "tool_start"]_vars

(***************************************************************************)
(* C2 amended: a round ends the turn if and only if no tool call is        *)
(* pending, whatever its stop reason; a round with a pending tool call     *)
(* goes to tool dispatch, and when the consumer has taken the last         *)
(* tool_end one user-role tool_result message is appended and the adapter  *)
(* is called again.                                                        *)
(***************************************************************************)
C2_EndsIffNoToolUse ==
    /\ [][RoundEnds =>
             /\ (pc' = "done") <=> (toolUses = <<>>)
             /\ toolUses # <<>> => pc' = "tool_start"]_vars
    /\ [][DispatchEnds =>
             /\ pc' = "round"
             /\ Len(messages') = Len(messages) + 1
             /\ SubSeq(messages', 1, Len(messages)) = messages
             /\ IsToolResultMessage(messages'[Len(messages')], Len(toolUses))]_vars
    /\ [][pc = "round" /\ pc' # "round" =>
             pc' = "streaming" /\ rounds' = rounds + 1]_vars

\* a turn ended by a round that reported tool_use without any tool call, after
\* a round that dispatched tools
C2_Witness == pc = "done" /\ stopReason = "tool_use" /\ rounds >= 2

(***************************************************************************)
(* C3: a turn in flight comes to an end when the adapter and the tool      *)
(* executors keep answering and the consumer keeps asking, and a turn      *)
(* never ends while tool calls of its last round are pending: the number   *)
(* of rounds run does not end it.                                          *)
(***************************************************************************)
C3_Terminates ==
    /\ Running ~> ~ Running
    /\ [](pc = "done" => toolUses = <<>>)

\* a turn that ended after three rounds
C3_Witness == pc = "done" /\ rounds = 3 /\ toolUses = <<>>

(***************************************************************************)
(* C4: a turn completed after n rounds has appended 2n messages: the user  *)
(* message with the raw text, then assistant messages with one user-role   *)
(* tool_result message between two of them; the roles alternate from user  *)
(* to assistant.                                                           *)
(***************************************************************************)
C4_TwoMessagesPerRound ==
    pc = "done" =>
        /\ rounds >= 1
        /\ Len(Appended) = 2 * rounds
        /\ Appended[1] = StringMessage("user", userMessage)
        /\ \A i \in 1..Len(Appended) :
              Appended[i].role = IF i % 2 = 1 THEN "user" ELSE "assistant"
        /\ \A i \in 2..Len(Appended) :
              i % 2 = 1 => /\ ~ Appended[i].isString
                           /\ Appended[i].blocks # <<>>
                           /\ IsToolResultMessage(Appended[i], Len(Appended[i].blocks))

\* a second turn of the session completed after two rounds
C4_Witness == pc = "done" /\ rounds = 2 /\ turnStart > 0 /\ Len(Appended) = 4

(***************************************************************************)
(* C5: the tools of a round run one at a time in the order of the round's  *)
(* tool_use events: the events of the dispatch are tool_start(1),          *)
(* tool_end(1), tool_start(2), ... and the tool_result message appended    *)
(* has one block per tool_use, with the ids of the tool_use blocks in the  *)
(* same order.                                                             *)
(***************************************************************************)
\* events the dispatch of this round has delivered
DispatchCount ==
    IF pc \in {"tool_start", "executing"} THEN 2 * toolIndex - 1
    ELSE IF pc = "tool_end" THEN 2 * toolIndex
    ELSE IF pc = "round" /\ rounds >= 1 THEN 2 * Len(toolUses)
    ELSE 0

\* the result of the k-th call of this round
ResultOf(k) == IF k <= Len(toolResults) THEN toolResults[k].content ELSE pendingResult

C5_ToolsInOrder ==
    /\ DispatchCount <= Len(events)
    /\ \A j \in 1..DispatchCount :
          LET e == events[Len(events) - DispatchCount + j]
              k == (j + 1) \div 2
          IN IF j % 2 = 1
             THEN e = ToolStartEvent(toolUses[k])
             ELSE e = ToolEndEvent(toolUses[k], ResultOf(k))
    /\ pc = "round" /\ rounds >= 1 =>
          LET n == Len(toolUses)
              results == messages[Len(messages)]
              assistant == messages[Len(messages) - 1]
              uses == SelectSeq(assistant.blocks, LAMBDA b : b.type = "tool_use")
          IN /\ n >= 1
             /\ IsToolResultMessage(results, n)
             /\ Len(uses) = n
             /\ \A k \in 1..n :
                   /\ results.blocks[k].tool_use_id = uses[k].id
                   /\ uses[k].id = toolUses[k].id

\* a round of two tool calls with different ids whose results were appended
C5_Witness ==
    /\ pc = "round"
    /\ Len(toolUses) = 2
    /\ toolUses[1].id # toolUses[2].id
    /\ Len(events) >= 4

(***************************************************************************)
(* C6: a call of a tool that is not in the catalog or whose executor       *)
(* throws ends in a tool_end event with an error string; the string is     *)
(* recorded as the tool_result of the call, the loop goes on with the next *)
(* call or the next round, and agentTurn does not throw.                   *)
(***************************************************************************)
IsErrorString(str) == Len(str) >= 5 /\ SubSeq(str, 1, 5) = "Error"

EndsWith(str, tail) ==
    Len(str) >= Len(tail) /\ SubSeq(str, Len(str) - Len(tail) + 1, Len(str)) = tail

C6_FaultsBecomeResults ==
    /\ [][pc = "executing" /\ pc' # "executing" =>
             LET tu == toolUses[toolIndex] IN
             /\ pc' = "tool_end"
             /\ events' = Append(events, ToolEndEvent(tu, pendingResult'))
             /\ tu.name \notin Catalog => IsErrorString(pendingResult')
             /\ execOutcome'.kind = "throw" =>
                   /\ IsErrorString(pendingResult')
                   /\ EndsWith(pendingResult', execOutcome'.value)]_vars
    /\ [][pc = "tool_end" /\ pc' \notin {"tool_end", "stopped"} =>
             /\ pc' \in {"tool_start", "round"}
             /\ toolResults' = Append(toolResults,
                    ToolResultBlock(toolUses[toolIndex].id, pendingResult))
             /\ pc' = "round" =>
                   messages'[Len(messages')].blocks = toolResults']_vars
    /\ [](pc = "failed" => toolIndex = 0)

\* a round whose first call named an unknown tool and whose second call threw,
\* both recorded, and the loop at the top of its next round
C6_Witness ==
    /\ pc = "round"
    /\ Len(toolResults) = 2
    /\ toolResults[1].content = "Error: Unknown tool \"nope\""
    /\ toolResults[2].content = "Error executing tool \"echo\": Something broke"
    /\ messages[Len(messages)].blocks = toolResults

(***************************************************************************)
(* C7: when the adapter's stream fails in a round, agentTurn ends with the *)
(* error, no assistant message is appended for the round, not even one     *)
(* with the text already streamed, and the transcript stays as it was.     *)
(***************************************************************************)
C7_NoPartialAssistant ==
    /\ [][pc = "streaming" /\ adapterPhase \in {"text", "tools"}
             /\ adapterPhase' = "closed" =>
             /\ pc' = "failed"
             /\ messages' = messages
             /\ journal' = journal]_vars
    /\ [](pc = "failed" =>
             /\ Len(Appended) = 2 * rounds - 1
             /\ messages[Len(messages)].role = "user")

\* a stream that failed in the second round after it had sent text
C7_Witness == pc = "failed" /\ rounds = 2 /\ currentText # ""

(***************************************************************************)
(* C8: the bounded context of the round that follows a tool dispatch holds *)
(* the assistant tool_use message of the dispatching round and its         *)
(* tool_result message, the contents possibly truncated, error strings     *)
(* included, for every history limit.                                      *)
(***************************************************************************)
EffectiveCap == Min(config.maxToolResultChars, HARD_MAX_TOOL_RESULT_CHARS)

C8_NextRoundSeesResults ==
    pc \in {"streaming", "yield_text"} /\ rounds >= 2 =>
        LET n == Len(messages)
            m == Len(contextMessages)
        IN /\ m >= 2
           /\ contextMessages[m - 1] = messages[n - 1]
           /\ contextMessages[m - 1].role = "assistant"
           /\ \E j \in 1..Len(messages[n - 1].blocks) :
                 messages[n - 1].blocks[j].type = "tool_use"
           /\ IsToolResultMessage(contextMessages[m], Len(messages[n].blocks))
           /\ \A j \in 1..Len(messages[n].blocks) :
                 LET given == messages[n].blocks[j]
                     seen == contextMessages[m].blocks[j]
                 IN /\ seen.tool_use_id = given.tool_use_id
                    /\ Len(given.content) <= EffectiveCap => seen.content = given.content
                    /\ Len(given.content) > EffectiveCap =>
                          SubSeq(seen.content, 1, MIN_KEEP_CHARS)
                             = SubSeq(given.content, 1, MIN_KEEP_CHARS)

\* with a history limit of one turn, a round that sees a truncated result and
\* the error string of an unknown tool
C8_Witness ==
    /\ pc = "streaming"
    /\ rounds = 2
    /\ config.maxHistoryTurns = 1
    /\ Len(contextMessages) = 2
    /\ Len(contextMessages[2].blocks) = 2
    /\ contextMessages[2].blocks[1].content # messages[Len(messages)].blocks[1].content
    /\ contextMessages[2].blocks[2].content = "Error: Unknown tool \"nope\""

(***************************************************************************)
(* C9: the transcript changes by appending at its end only: at each step   *)
(* the transcript before the step is a prefix of the transcript after it.  *)
(***************************************************************************)
C9_AppendOnly == [][IsPrefix(messages, messages')]_vars

\* a transcript of two turns, the second one with a tool round
C9_Witness == turnStart > 0 /\ Len(messages) >= 5 /\ pc = "round"

(***************************************************************************)
(* C11: prepareContext is idempotent: applied to the context it has        *)
(* returned, under the same config, it returns that context again, message *)
(* for message and block for block.                                        *)
(***************************************************************************)
C11_Idempotent == phase = "prepared again" => output = input

(***************************************************************************)
(* Reading the history window.                                             *)
(***************************************************************************)
\* the user-role messages of msgs, in their order
UserMessages(msgs) == SelectSeq(msgs, LAMBDA m : m.role = "user")

\* the k most recent user-role messages of msgs (all of them if there are fewer)
MostRecentUsers(msgs, k) ==
    LET users == UserMessages(msgs)
    IN SubSeq(users, Max(1, Len(users) - k + 1), Len(users))

\* message o of a context is message m of the transcript, its tool_result
\* contents possibly truncated and some of its blocks possibly dropped
ComesFrom(o, m) ==
    /\ o.role = m.role
    /\ o.isString = m.isString
    /\ o.text = m.text
    /\ \A i \in 1..Len(o.blocks) : \E j \in 1..Len(m.blocks) :
          /\ o.blocks[i].type = m.blocks[j].type
          /\ o.blocks[i].tool_use_id = m.blocks[j].tool_use_id
          /\ o.blocks[i].text = m.blocks[j].text

\* the messages of a are, in their order, messages of b
EmbedsIn(a, b) ==
    \E f \in [1..Len(a) -> 1..Len(b)] :
        /\ \A i \in 1..Len(a) : ComesFrom(a[i], b[f[i]])
        /\ \A i \in 1..Len(a) : \A j \in 1..Len(a) : i < j => f[i] < f[j]

(***************************************************************************)
(* C12: history-window law.  With a limit k >= 1 and a transcript of at    *)
(* least k user-role messages, the user-role messages of the context are   *)
(* among the k most recent user-role messages of the transcript: none of   *)
(* them is older.                                                          *)
(***************************************************************************)
C12_HistoryWindow ==
    phase = "prepared" /\ config.maxHistoryTurns >= 1
        /\ Len(UserMessages(input)) >= config.maxHistoryTurns =>
            /\ Len(UserMessages(output)) <= config.maxHistoryTurns
            /\ EmbedsIn(UserMessages(output),
                        MostRecentUsers(input, config.maxHistoryTurns))

\* a transcript of three user-role messages cut to its most recent one
C12_Witness ==
    /\ phase = "prepared"
    /\ config.maxHistoryTurns = 1
    /\ Len(UserMessages(input)) = 3
    /\ Len(UserMessages(output)) = 1
    /\ output[Len(output)] = input[Len(input)]

(***************************************************************************)
(* C13: turn-window limiting returns the whole transcript when the limit   *)
(* is not positive or the transcript has at most k user-role messages;     *)
(* otherwise it returns exactly the part of the transcript after the       *)
(* (k+1)-th most recent user-role message, so the messages that follow     *)
(* that dropped user message are retained.                                 *)
(***************************************************************************)
\* the positions of the user-role messages of msgs
UserPositions(msgs) == {i \in 1..Len(msgs) : msgs[i].role = "user"}

C13_WindowIsSuffix ==
    phase = "prepared" =>
        LET k == config.maxHistoryTurns
            users == UserPositions(input)
        IN IF k <= 0 \/ Cardinality(users) <= k
           THEN limitedResult = input
           ELSE \E p \in users :
                   /\ Cardinality({q \in users : q > p}) = k
                   /\ limitedResult = SubSeq(input, p + 1, Len(input))

\* [U, A, U, A] with k = 1: the window is [A, U, A], the reply to the dropped
\* user message first
C13_Witness ==
    /\ phase = "prepared"
    /\ config.maxHistoryTurns = 1
    /\ Len(input) = 4
    /\ \A i \in 1..4 : input[i].isString
    /\ \A i \in 1..4 : input[i].role = IF i % 2 = 1 THEN "user" ELSE "assistant"
    /\ limitedResult = SubSeq(input, 2, 4)

(***************************************************************************)
(* Reading the truncation of one tool round.                               *)
(***************************************************************************)
\* the content of the tool_result handed to prepareContext and the content
\* of the same tool_result in the context returned
GivenContent == input[2].blocks[1].content
SeenContent == output[2].blocks[1].content

\* the first characters of the marker truncateText appends
MarkerHead == "\n\n[Truncated: showing first "

(***************************************************************************)
(* C14: for every cap >= the minimum-keep floor and every tool_result      *)
(* content longer than the cap, the truncated content (kept text plus      *)
(* marker) is at least as long as the floor and at most as long as the     *)
(* original content.                                                       *)
(***************************************************************************)
C14_LengthBounds ==
    phase # "given" /\ EffectiveCap >= MIN_KEEP_CHARS
        /\ Len(GivenContent) > EffectiveCap =>
            /\ Len(SeenContent) >= MIN_KEEP_CHARS
            /\ Len(SeenContent) <= Len(GivenContent)

(***************************************************************************)
(* C15: the effective cap is min(maxToolResultChars, 400000).  A           *)
(* tool_result whose content is at most as long as the effective cap       *)
(* passes through prepareContext unchanged, and one longer than 400000     *)
(* characters is truncated however large maxToolResultChars is.            *)
(***************************************************************************)
C15_CeilingWins ==
    phase # "given" =>
        /\ Len(GivenContent) <= EffectiveCap => SeenContent = GivenContent
        /\ Len(GivenContent) > HARD_MAX_TOOL_RESULT_CHARS =>
              /\ Len(SeenContent) < Len(GivenContent)
              /\ \E n \in 1..HARD_MAX_TOOL_RESULT_CHARS :
                    /\ n + Len(MarkerHead) <= Len(SeenContent)
                    /\ SubSeq(SeenContent, n + 1, n + Len(MarkerHead)) = MarkerHead
                    /\ SubSeq(SeenContent, 1, n) = SubSeq(GivenContent, 1, n)

\* a result of 400001 characters truncated under a configured cap of 1000000
C15_Witness ==
    /\ phase = "prepared"
    /\ config.maxToolResultChars > HARD_MAX_TOOL_RESULT_CHARS
    /\ Len(GivenContent) = HARD_MAX_TOOL_RESULT_CHARS + 1
    /\ Len(SeenContent) < HARD_MAX_TOOL_RESULT_CHARS

C17_NoEmptyMessage ==
    \A i \in 1..Len(contextMessages) :
        contextMessages[i].isString \/ contextMessages[i].blocks # <<>>

\* the events of a type among those an adapter has yielded
YieldedOfType(type) == SelectSeq(yielded, LAMBDA e : e.type = type)

\* C18: every adapter stream that completes without error has emitted exactly
\* one message_stop event, as its last event, whose stop_reason is end_turn or
\* tool_use whatever the upstream reported, for both adapters.
C18_OneNormalizedStop ==
    adapterPc = "stopped" =>
        /\ Len(YieldedOfType("message_stop")) = 1
        /\ yielded[Len(yielded)].type = "message_stop"
        /\ yielded[Len(yielded)].stop_reason \in {"end_turn", "tool_use"}

\* the tool-call deltas the upstream has delivered in chunks that carry a delta
RECURSIVE ArrivedToolCalls(_)
ArrivedToolCalls(chunks) ==
    IF chunks = <<>> THEN <<>>
    ELSE (IF Head(chunks).hasDelta THEN Head(chunks).tool_calls ELSE <<>>)
             \o ArrivedToolCalls(Tail(chunks))

\* the argument fragments of one call index, concatenated in arrival order
RECURSIVE ConcatenatedFragments(_, _)
ConcatenatedFragments(tcs, index) ==
    IF tcs = <<>> THEN ""
    ELSE (IF Head(tcs).index = index THEN Head(tcs).arguments ELSE "")
             \o ConcatenatedFragments(Tail(tcs), index)

\* the distinct call indexes, each at its first arrival
RECURSIVE DistinctIndexes(_, _)
DistinctIndexes(tcs, seen) ==
    IF tcs = <<>> THEN <<>>
    ELSE IF Head(tcs).index \in seen THEN DistinctIndexes(Tail(tcs), seen)
    ELSE <<Head(tcs).index>> \o DistinctIndexes(Tail(tcs), seen \cup {Head(tcs).index})

\* the input a tool_use event is to carry for an argument text
BestEffortInput(text) == IF JsonParse(text).ok THEN JsonParse(text).value ELSE {}

\* C19: in the delta-accumulate adapter no tool_use event is emitted before the
\* upstream stream has closed; a completed stream has emitted exactly one
\* tool_use event per distinct call index, before message_stop, whose input is
\* the parse of that index's fragments concatenated in arrival order, or an
\* empty object when they are not valid JSON; and emitting never throws.
C19_FragmentsPerIndex ==
    client = "openai" =>
        LET arrived == ArrivedToolCalls(upstream)
            indexes == DistinctIndexes(arrived, {})
            uses == YieldedOfType("tool_use")
        IN /\ adapterPc = "reading" => uses = <<>>
           /\ adapterPc # "threw"
           /\ adapterPc = "stopped" =>
                 /\ Len(uses) = Len(indexes)
                 /\ \A k \in 1..Len(uses) :
                       uses[k].input =
                           BestEffortInput(ConcatenatedFragments(arrived, indexes[k]))
                 /\ \A k \in 1..Len(yielded) :
                       yielded[k].type = "tool_use" => k < Len(yielded)
                 /\ yielded[Len(yielded)].type = "message_stop"

\* a completed stream where one call's two fragments made a JSON object and
\* another call's arguments were not valid JSON
C19_Witness ==
    /\ client = "openai"
    /\ adapterPc = "stopped"
    /\ \E k \in 1..Len(toolCalls) :
          /\ toolCalls[k].args = "{\"a\"" \o ":1}"
          /\ YieldedOfType("tool_use")[k].input = {<<"a", 1>>}
    /\ \E k \in 1..Len(toolCalls) :
          /\ ~ JsonParse(toolCalls[k].args).ok
          /\ YieldedOfType("tool_use")[k].input = {}
    /\ Len(YieldedOfType("tool_use")) = 2

\* C20: the events agentTurn has delivered to its consumer when a turn is
\* complete contain a terminal event that carries the stop reason.
C20_TerminalEventDelivered ==
    pc = "done" => \E i \in 1..Len(events) : events[i].type = "message_stop"

\* C21: when the consumer stops iterating the events of agentTurn, at whatever
\* yield of the turn, the transcript and its journal stay as they are, and no
\* further event of that turn is delivered: the stopped generator takes no step
\* until the caller starts another turn, which only appends.
C21_StopRollsNothingBack ==
    /\ [][pc' = "stopped" => /\ pc \in {"yield_text", "tool_start", "tool_end"}
                             /\ messages' = messages
                             /\ journal' = journal
                             /\ events' = events]_vars
    /\ [][pc = "stopped" => /\ pc' = "round"
                            /\ turnStart' = Len(messages)
                            /\ IsPrefix(messages, messages')
                            /\ events' = <<>>]_vars

\* the consumer has stopped at a tool_start of a second round: the user
\* message, two assistant messages and a tool_result message are appended
C21_Witness ==
    /\ pc = "stopped"
    /\ rounds = 2
    /\ toolIndex >= 1
    /\ Len(messages) >= turnStart + 4

\* C22: at most one agentTurn is in flight per conversation: the websocket
\* handler never has two turns on the same session suspended on the adapter or
\* on a tool at the same time.
C22_OneTurnInFlight ==
    \A a, b \in 1..Len(handlers) :
        (a # b /\ handlers[a].session = handlers[b].session) => ~ (InFlight(a) /\ InFlight(b))

\* the lines of the file that appendMessage wrote, as messages, in file order
RECURSIVE WellFormedMessages(_)
WellFormedMessages(ws) ==
    IF ws = <<>> THEN <<>>
    ELSE (IF Head(ws).wellFormed THEN <<Head(ws).message>> ELSE <<>>)
             \o WellFormedMessages(Tail(ws))

OnlyAppended == \A k \in 1..Len(written) : written[k].wellFormed

\* C23: after any sequence of appendMessage calls on a session created by
\* createSession, loadSession returns a message list equal to session.messages,
\* in the same order, nested tool_use and tool_result blocks included.
C23_RoundTrip ==
    OnlyAppended =>
        /\ storePc # "threw"
        /\ storePc = "loaded" => loadedMessages = sessionMessages

\* three messages were appended and loaded, with quotes, backslashes and line
\* breaks in a string and with tool_use and tool_result blocks
C23_Witness ==
    /\ storePc = "loaded"
    /\ OnlyAppended
    /\ Len(loadedMessages) = 3
    /\ \E k \in 1..3 : loadedMessages[k].isString /\ Len(loadedMessages[k].text) > 20
    /\ \E k \in 1..3 : /\ Len(loadedMessages[k].blocks) = 2
                       /\ loadedMessages[k].blocks[2].type = "tool_use"
    /\ \E k \in 1..3 : /\ Len(loadedMessages[k].blocks) = 2
                       /\ loadedMessages[k].blocks[1].type = "tool_result"

\* C24: loadSession of a journal with malformed lines anywhere between the
\* well-formed entries does not fail; it returns exactly the well-formed
\* message entries, in file order, without the header and the malformed lines.
C24_SkipsMalformed ==
    ~ OnlyAppended =>
        /\ storePc # "threw"
        /\ storePc = "loaded" => loadedMessages = WellFormedMessages(written)

\* a journal was loaded whose lines are a message, a malformed line that is
\* not blank, and a message
C24_Witness ==
    /\ storePc = "loaded"
    /\ Len(written) = 3
    /\ written[1].wellFormed
    /\ ~ written[2].wellFormed /\ Trim(written[2].message.text) # ""
    /\ written[3].wellFormed
    /\ Len(loadedMessages) = 2

\* C25: the tool catalog of the agent loop of a sub-agent never contains
\* spawn_agent, so whatever the model asks for, the nesting depth of running
\* sub-agents never exceeds 1 (and so never exceeds MAX_DEPTH).
C25_NoNestedSubAgents ==
    /\ \A k \in 2..Len(stack) : "spawn_agent" \notin stack[k].catalog
    /\ Len(stack) - 1 <= 1
    /\ Len(stack) - 1 <= MAX_DEPTH

\* a sub-agent spawned with a tool list that holds spawn_agent is running, and
\* its model has asked for spawn_agent and got the unknown-tool error
C25_Witness ==
    /\ Len(stack) = 2
    /\ "spawn_agent" \in spawnTools
    /\ \E k \in 1..Len(agentSessions[Top.session]) :
          agentSessions[Top.session][k].content = "Error: Unknown tool \"spawn_agent\""

RECURSIVE Concatenation(_)
Concatenation(texts) ==
    IF texts = <<>> THEN "" ELSE Head(texts) \o Concatenation(Tail(texts))

\* C26: spawnSubAgent runs its turn on a session of its own: while a sub-agent
\* runs, the parent's transcript stays as it is; and what spawnSubAgent returns
\* is the concatenation, in emission order, of the text events of all rounds
\* of the sub-agent's turn.
C26_IsolatedAndCollected ==
    /\ [][(Len(stack) = 2 /\ Len(stack') = 2) =>
             /\ Top.session # stack[1].session
             /\ agentSessions'[stack[1].session] = agentSessions[stack[1].session]]_vars
    /\ [](lastReturn.returned => lastReturn.result = Concatenation(lastReturn.texts))

\* a sub-agent has returned the two texts it sent in two rounds
C26_Witness ==
    /\ lastReturn.returned
    /\ lastReturn.texts = <<"a", "b">>
    /\ lastReturn.result = "ab"
    /\ Len(agentSessions[2]) = 4
    /\ Len(stack) = 1

\* C27: a start with heartbeat.enabled false installs no timer, and agent.turn
\* is never invoked without a timer; and for any sequence of start and stop
\* calls, once stop() has returned no later interval tick invokes agent.turn.
C27_StopSilences ==
    /\ [](turnCalls # <<>> => timers # <<>>)
    /\ [][(stopReturned /\ stopReturned') => turnCalls' = turnCalls]_vars

\* the minutes of the day of an active window, both ends included, a window
\* whose start is after its end running through midnight
Window(activeHours) ==
    LET startMinutes == MinutesOf(activeHours.start)
        endMinutes == MinutesOf(activeHours.end)
    IN IF startMinutes <= endMinutes THEN startMinutes..endMinutes
       ELSE (startMinutes..1439) \cup (0..endMinutes)

NonBlank(text) == \E i \in 1..Len(text) : ~ IsSpace(Ch(text, i))

\* C28: on each tick agent.turn is invoked if and only if no active hours are
\* configured or the time is inside them (both ends included, windows through
\* midnight honoured) and HEARTBEAT.md exists with non-blank content; the
\* response is broadcast if and only if it is not both one that contains
\* HEARTBEAT_OK and one shorter than 300 characters.
C28_TickAndBroadcast ==
    /\ lastTick.ticked =>
          (lastTick.invoked <=>
              /\ \/ lastTick.activeHours = NoActiveHours
                 \/ lastTick.hours * 60 + lastTick.minutes \in Window(lastTick.activeHours)
              /\ lastTick.exists
              /\ NonBlank(lastTick.content))
    /\ lastDelivery.resolved =>
          (lastDelivery.broadcast <=>
              ~ (/\ \E i \in 1..Len(lastDelivery.response) :
                       SubSeq(lastDelivery.response, i, Min(Len(lastDelivery.response), i + 11))
                           = "HEARTBEAT_OK"
                 /\ Len(lastDelivery.response) <= 299))

\* a tick at the last minute of a window through midnight has invoked
\* agent.turn, and a response of 300 characters with HEARTBEAT_OK was broadcast
C28_Witness ==
    /\ lastTick.ticked
    /\ lastTick.activeHours = [start |-> "22:00", end |-> "06:00"]
    /\ lastTick.hours = 6 /\ lastTick.minutes = 0
    /\ lastTick.invoked
    /\ lastDelivery.resolved
    /\ Len(lastDelivery.response) = 300
    /\ Includes(lastDelivery.response, "HEARTBEAT_OK")
    /\ lastDelivery.broadcast

\* the skill set of the latest reload
Reloaded == skillArrays[Len(skillArrays)]

\* C29: after a change to a skill file has triggered a reload, every turn
\* started afterwards uses the reloaded skill set: the skill-derived tools of
\* the catalog passed to the loop and the skills the system prompt is built
\* from are the reloaded ones.
C29_TurnsUseReloadedSkills ==
    [][(turnsStarted' = turnsStarted + 1 /\ Len(skillArrays) > 1) =>
          /\ lastTurn'.tools = StaticTools \o SkillTools(Reloaded)
          /\ lastTurn'.systemPrompt = BuildSystemPrompt(Reloaded, lastTurn'.memoryContext)]_vars

\* the names of seq that are in keep, in the order of seq
RECURSIVE Restrict(_, _)
Restrict(seq, keep) ==
    IF seq = <<>> THEN <<>>
    ELSE (IF Head(seq) \in keep THEN <<Head(seq)>> ELSE <<>>) \o Restrict(Tail(seq), keep)

\* the servers whose start succeeded
StartedNames == {startAttempts[i].name : i \in {j \in 1..Len(startAttempts) :
                                                  startAttempts[j].outcome = "started"}}

\* C30: startAllMCPServers never throws because a server fails to start:
\* whichever starts fail, it attempts every configured server and returns
\* exactly the servers that started, in configuration order; and
\* stopAllMCPServers attempts close on every server even when an earlier close
\* throws.
C30_StartAndStopAll ==
    /\ mcpPhase \in {"idle", "starting", "started", "stopping", "stopped"}
    /\ mcpPhase \in {"started", "stopping", "stopped"} =>
          /\ [i \in 1..Len(startAttempts) |-> startAttempts[i].name] = mcpConfig
          /\ [i \in 1..Len(servers) |-> servers[i].name] = Restrict(mcpConfig, StartedNames)
    /\ mcpPhase = "stopped" =>
          [i \in 1..Len(closeAttempts) |-> closeAttempts[i].name]
              = [i \in 1..Len(servers) |-> servers[i].name]

\* of three configured servers the first failed to start and the other two
\* were returned; the close of the first of them threw and both were closed
C30_Witness ==
    /\ mcpPhase = "stopped"
    /\ Len(mcpConfig) = 3
    /\ startAttempts[1].outcome = "connect"
    /\ Len(servers) = 2
    /\ Len(closeAttempts) = 2
    /\ closeAttempts[1].threw

(***************************************************************************)
(* C31 as stated: when the transcript has more than k user-role messages   *)
(* (k >= 1), turn-window limiting cuts immediately before the (k+1)-th     *)
(* most recent user-role message: only the messages earlier than it are    *)
(* discarded and it is the first message kept.                             *)
(***************************************************************************)
\* the position of the n-th most recent user-role message of msgs
NthRecentUser(msgs, n) ==
    CHOOSE p \in UserPositions(msgs) : Cardinality({q \in UserPositions(msgs) : q >= p}) = n

C31_Original ==
    phase = "prepared" /\ config.maxHistoryTurns >= 1
        /\ Cardinality(UserPositions(input)) > config.maxHistoryTurns =>
            LET p == NthRecentUser(input, config.maxHistoryTurns + 1)
            IN /\ Len(limitedResult) = Len(input) - p + 1
               /\ limitedResult[1] = input[p]

(***************************************************************************)
(* C31 amended: when the transcript has more than k user-role messages     *)
(* (k >= 1), turn-window limiting cuts immediately after the (k+1)-th most *)
(* recent user-role message: that message and the messages earlier than   *)
(* it are discarded, every later message is kept in order, and the window  *)
(* holds exactly the k most recent user-role messages.                     *)
(***************************************************************************)
C31_CutsAfterUser ==
    phase = "prepared" /\ config.maxHistoryTurns >= 1
        /\ Cardinality(UserPositions(input)) > config.maxHistoryTurns =>
            LET p == NthRecentUser(input, config.maxHistoryTurns + 1)
            IN /\ Len(limitedResult) = Len(input) - p
               /\ \A i \in 1..Len(limitedResult) : limitedResult[i] = input[p + i]
               /\ Cardinality(UserPositions(limitedResult)) = config.maxHistoryTurns

\* k = 2 and three user-role messages, the oldest followed by an assistant
\* message: the window starts at that assistant message
C31_Witness ==
    /\ phase = "prepared"
    /\ config.maxHistoryTurns = 2
    /\ Cardinality(UserPositions(input)) = 3
    /\ input[1].role = "user"
    /\ input[2].role = "assistant"
    /\ Len(limitedResult) = Len(input) - 1
    /\ limitedResult[1] = input[2]

(***************************************************************************)
(* C32: for a content longer than the cap, with keep = max(2000, cap -     *)
(* 100), truncation cuts at the last newline found searching backward from *)
(* position keep when that newline lies at or after 80% of keep, the       *)
(* position floor(0.8 * keep) included, and cuts exactly at keep           *)
(* otherwise.                                                              *)
(***************************************************************************)
\* the largest 0-based index of a newline of text that is at most keep, or -1
LastNewlineUpTo(text, keep) ==
    LET at == {i \in 0..Min(keep, Len(text) - 1) : CharAt(text, i) = "\n"}
    IN IF at = {} THEN -1 ELSE CHOOSE i \in at : \A j \in at : j <= i

C32_CutAtNewlineFrom80 ==
    phase = "prepared" /\ Len(GivenContent) > EffectiveCap =>
        LET keep == Max(MIN_KEEP_CHARS, EffectiveCap - 100)
            newline == LastNewlineUpTo(GivenContent, keep)
            cut == IF newline >= (4 * keep) \div 5 THEN newline ELSE keep
            kept == Min(cut, Len(GivenContent))
        IN /\ SubSeq(SeenContent, 1, kept) = SubSeq(GivenContent, 1, kept)
           /\ SubSeq(SeenContent, kept + 1, kept + Len(MarkerHead)) = MarkerHead

(***************************************************************************)
(* C33: every truncated content is the first c characters of the original  *)
(* content followed by a marker that states c as the number of characters  *)
(* shown and the original length as the total, where c is the number of    *)
(* original characters retained and never exceeds the original length.     *)
(***************************************************************************)
\* the marker for c characters shown of total
MarkerFor(c, total) ==
    MarkerHead \o ToString(c) \o " of " \o ToString(total) \o " characters]"

C33_MarkerStatesRetained ==
    phase = "prepared" /\ Len(GivenContent) > EffectiveCap =>
        \E c \in 0..Len(GivenContent) :
            /\ c >= Len(SeenContent) - 80
            /\ Len(SeenContent) = c + Len(MarkerFor(c, Len(GivenContent)))
            /\ SeenContent = SubSeq(GivenContent, 1, c) \o MarkerFor(c, Len(GivenContent))

(***************************************************************************)
(* C34: the assistant message appended for a round has as content the      *)
(* plain string of the round's concatenated text deltas when the round     *)
(* produced non-empty text and no tool_use; otherwise its content is a     *)
(* block sequence with one text block first, only if the text is not       *)
(* empty, followed by the round's tool_use blocks in emission order; the   *)
(* text deltas are sent on outward unchanged and in order.                 *)
(***************************************************************************)
\* the events of type t of the stream, in order
StreamOfType(t) == SelectSeq(stream, LAMBDA e : e.type = t)

\* the text deltas of the stream put together
RECURSIVE DeltasJoined(_)
DeltasJoined(es) == IF es = <<>> THEN "" ELSE Head(es).text \o DeltasJoined(Tail(es))

C34_AssistantContent ==
    pc = "appended" =>
        LET text == DeltasJoined(StreamOfType("text"))
            uses == StreamOfType("tool_use")
            last == messages[Len(messages)]
        IN /\ last.role = "assistant"
           /\ IF text # "" /\ uses = <<>>
              THEN last.isString /\ last.text = text
              ELSE /\ ~ last.isString
                   /\ Len(last.blocks) = Len(uses) + (IF text # "" THEN 1 ELSE 0)
                   /\ text # "" => last.blocks[1].type = "text" /\ last.blocks[1].text = text
                   /\ \A k \in 1..Len(uses) :
                         LET block == last.blocks[Len(last.blocks) - Len(uses) + k]
                         IN /\ block.type = "tool_use"
                            /\ block.id = uses[k].tu.id
                            /\ block.name = uses[k].tu.name
                            /\ block.input = uses[k].tu.input
           /\ Len(events) = Len(StreamOfType("text"))
           /\ \A k \in 1..Len(events) :
                 events[k].type = "text" /\ events[k].text = StreamOfType("text")[k].text

\* a tool_use received before two text deltas: the message holds the text
\* block with both deltas, then the tool_use block
C34_Witness ==
    /\ pc = "appended"
    /\ Len(stream) = 3
    /\ stream[1].type = "tool_use"
    /\ stream[2].text = "Hi"
    /\ stream[3].text = " there"
    /\ ~ messages[Len(messages)].isString
    /\ messages[Len(messages)].blocks[1].text = "Hi there"
    /\ messages[Len(messages)].blocks[2].type = "tool_use"
    /\ Len(events) = 2

(***************************************************************************)
(* C35: every tool_result block that prepareContext lets through refers to *)
(* a tool_use id held by an assistant message that comes earlier in the    *)
(* bounded context than the tool_result; a tool_result whose only matching *)
(* tool_use comes later in the transcript is dropped.                      *)
(***************************************************************************)
C35_ToolUseComesFirst ==
    phase = "prepared" =>
        \A k \in 1..Len(output) :
            ~ output[k].isString =>
                \A j \in 1..Len(output[k].blocks) :
                    output[k].blocks[j].type = "tool_result" =>
                        \E a \in 1..(k - 1) :
                            /\ output[a].role = "assistant"
                            /\ ~ output[a].isString
                            /\ \E b \in 1..Len(output[a].blocks) :
                                  /\ output[a].blocks[b].type = "tool_use"
                                  /\ output[a].blocks[b].id = output[k].blocks[j].tool_use_id

(***************************************************************************)
(* C36: with maxHistoryTurns = k >= 1, in every round of a turn the        *)
(* bounded context passed to the adapter contains the raw user message     *)
(* that started the turn, however many tool rounds the turn has run.       *)
(***************************************************************************)
C36_ContextHoldsTurnStart ==
    pc \in {"streaming", "yield_text"} /\ config.maxHistoryTurns >= 1 =>
        \E i \in 1..Len(contextMessages) :
            /\ contextMessages[i] = StringMessage("user", userMessage)
            /\ Len(contextMessages) - i = Len(messages) - (turnStart + 1)

(***************************************************************************)
(* C37: whenever a turn has ended, by completion, by an adapter error or   *)
(* because the consumer stopped iterating, every tool_use block of the     *)
(* transcript has a tool_result block with the same id in the message      *)
(* right after its assistant message.                                      *)
(***************************************************************************)
\* msgs[k] holds tool_use blocks and msgs[k + 1] answers each of them
Answered(msgs, k) ==
    \A b \in 1..Len(msgs[k].blocks) :
        msgs[k].blocks[b].type = "tool_use" =>
            /\ k < Len(msgs)
            /\ msgs[k + 1].role = "user"
            /\ ~ msgs[k + 1].isString
            /\ \E j \in 1..Len(msgs[k + 1].blocks) :
                  /\ msgs[k + 1].blocks[j].type = "tool_result"
                  /\ msgs[k + 1].blocks[j].tool_use_id = msgs[k].blocks[b].id

C37_EveryToolUseAnswered ==
    pc \in {"done", "failed", "stopped"} =>
        \A k \in 1..Len(messages) :
            messages[k].role = "assistant" /\ ~ messages[k].isString => Answered(messages, k)

(***************************************************************************)
(* C38: for a transcript built only by turns that ran to completion, one   *)
(* at a time, turn-window limiting never separates a tool_use from its     *)
(* tool_result: the bounded context holds an assistant tool_use block if   *)
(* and only if it holds the matching tool_result block in the next         *)
(* message, so orphan cleanup removes nothing from such a transcript.      *)
(***************************************************************************)
\* every tool_result block of msgs[k] answers a tool_use of msgs[k - 1]
Answers(msgs, k) ==
    \A j \in 1..Len(msgs[k].blocks) :
        msgs[k].blocks[j].type = "tool_result" =>
            /\ k > 1
            /\ msgs[k - 1].role = "assistant"
            /\ ~ msgs[k - 1].isString
            /\ \E b \in 1..Len(msgs[k - 1].blocks) :
                  /\ msgs[k - 1].blocks[b].type = "tool_use"
                  /\ msgs[k - 1].blocks[b].id = msgs[k].blocks[j].tool_use_id

\* tool_use and tool_result blocks come in pairs in msgs
Paired(msgs) ==
    \A k \in 1..Len(msgs) :
        ~ msgs[k].isString =>
            IF msgs[k].role = "assistant" THEN Answered(msgs, k) ELSE Answers(msgs, k)

C38_WindowKeepsPairs ==
    /\ pc = "done" =>
          LET window == LimitHistoryTurns(messages, config.maxHistoryTurns)
          IN /\ Paired(window)
             /\ RemoveOrphanedToolResults(window) = window
             /\ Len(PrepareContext(messages, config)) = Len(window)
    /\ pc = "streaming" =>
          /\ Paired(contextMessages)
          /\ Len(contextMessages) = Len(LimitHistoryTurns(messages, config.maxHistoryTurns))

\* two completed turns, the first with a tool round, under k = 2: the window
\* starts at the assistant tool_use message, the first user message cut off
C38_Witness ==
    /\ pc = "done"
    /\ config.maxHistoryTurns = 2
    /\ Len(messages) = 6
    /\ LET window == LimitHistoryTurns(messages, config.maxHistoryTurns)
       IN /\ Len(window) = 5
          /\ ~ window[1].isString
          /\ Len(window[1].blocks) > 0
          /\ window[1].blocks[1].type = "tool_use"
          /\ ~ window[2].isString
          /\ Len(window[2].blocks) > 0
          /\ window[2].blocks[1].type = "tool_result"

(***************************************************************************)
(* C39: for any sequence of createSession, appendMessage and loadSession   *)
(* calls, loadSession(id) returns every message ever appended to a session *)
(* with that id, in append order: no operation of the session module,      *)
(* createSession with an id that already has a journal included, discards  *)
(* stored messages.                                                        *)
(***************************************************************************)
C39_NothingDiscarded ==
    storePc = "loaded" => loadedMessages = appended

====
